---------------------------- MODULE Spec2Model ----------------------------
(***************************************************************************)
(* A model of the PackStream codec of bost-h/go-packstream: the encoder    *)
(* (Marshal / Encoder.Encode) and the decoder (Unmarshal / Decoder.Decode).*)
(*                                                                         *)
(* Bytes are the integers 0..255.  A Go int64 is its 8-byte big-endian     *)
(* two's complement image (TLC's own integers are 32 bits wide), so the    *)
(* band comparisons and the narrowing conversions are computed on the      *)
(* 64-bit value.  A Go string or []byte is the sequence of its bytes.      *)
(*                                                                         *)
(* Go values (what Marshal is given, what a generic sink receives):        *)
(*   [t |-> "null"]                    nil                                 *)
(*   [t |-> "bool",   b |-> BOOLEAN]   bool                                *)
(*   [t |-> "int",    i |-> I64]       int64                               *)
(*   [t |-> "float",  f |-> 8 bytes]   float64, as its IEEE-754 bits       *)
(*   [t |-> "string", s |-> bytes]     string                              *)
(*   [t |-> "bytes",  p |-> bytes]     []byte                              *)
(*   [t |-> "list",   l |-> seq]       []interface{}                       *)
(*   [t |-> "map",    m |-> function]  map[string]interface{}              *)
(*   [t |-> "struct", sig |-> byte, fields |-> seq]   Structure            *)
(***************************************************************************)
EXTENDS Integers, Sequences, FiniteSets, TLC

VARIABLES
    phase,      \* where the run is
    given,      \* the input of the run
    wr,         \* the bytes.Buffer the encoder writes to and the decoder reads
    encErr,     \* what the last Marshal / Encode returned
    d,          \* the decodeState of the last Unmarshal / Decode
    sink,       \* the value decoded into
    err,        \* what the last Unmarshal / Decode returned
    out,        \* the re-encoded buffer, or the values decoded off a stream
    written,    \* the length of each value written to the stream
    wrErr       \* the error the writer returned to the encoder, "nil" if none

vars == <<phase, given, wr, encErr, d, sink, err, out, written, wrErr>>

-----------------------------------------------------------------------------
(* Markers and limits                                                      *)

mTinyStringStart == 128
mTinyStringEnd == 143
mStringSize8 == 208
mStringSize16 == 209
mStringSize32 == 210
mTinyListStart == 144
mTinyListEnd == 159
mListSize8 == 212
mListSize16 == 213
mListSize32 == 214
mListSizeStream == 215
mTinyMapStart == 160
mTinyMapEnd == 175
mMapSize8 == 216
mMapSize16 == 217
mMapSize32 == 218
mMapSizeStream == 219
mTinyStructStart == 176
mTinyStructEnd == 191
mStructSize8 == 220
mStructSize16 == 221
mBytesSize8 == 204
mBytesSize16 == 205
mBytesSize32 == 206
mNull == 192
mFloat64 == 193
mFalse == 194
mTrue == 195
mInt8 == 200
mInt16 == 201
mInt32 == 202
mInt64 == 203
maxInt4 == 16
minTinyInt == -16
mEndOfStream == 223

-----------------------------------------------------------------------------
(* 64-bit integers as 8 big-endian bytes                                   *)

Byte == 0..255

\* The big-endian bytes of a natural number n < 2^31, on w <= 4 bytes.
RECURSIVE BE(_, _)
BE(n, w) == IF w = 0 THEN <<>> ELSE Append(BE(n \div 256, w - 1), n % 256)

\* int64(n) for a TLC integer n (-2^31 <= n < 2^31).
I64(n) ==
    IF n >= 0 THEN <<0, 0, 0, 0>> \o BE(n, 4)
    ELSE LET u == (n + 2147483647) + 1
         IN  <<255, 255, 255, 255, 128 + (u \div 16777216)>> \o BE(u % 16777216, 3)

\* The TLC integer of an int64 that lies in -2^31 .. 2^31-1.
RECURSIVE UInt(_)
UInt(p) == IF p = <<>> THEN 0 ELSE UInt(SubSeq(p, 1, Len(p) - 1)) * 256 + p[Len(p)]

ToInt(a) ==
    IF a[5] < 128 THEN UInt(SubSeq(a, 5, 8))
    ELSE (UInt(<<a[5] - 128, a[6], a[7], a[8]>>) - 2147483647) - 1

\* Unsigned lexicographic a < b on byte sequences of one length.
LexLT(a, b) ==
    \E i \in 1..Len(a) : a[i] < b[i] /\ \A j \in 1..(i - 1) : a[j] = b[j]

\* The sign bit flipped: signed order on int64 is unsigned order on Flip.
Flip(a) == [a EXCEPT ![1] = (a[1] + 128) % 256]

LT64(a, b) == LexLT(Flip(a), Flip(b))
LE64(a, b) == a = b \/ LT64(a, b)

\* Sign extension of a big-endian two's complement payload to int64.
SignExtend(p) ==
    [i \in 1..(8 - Len(p)) |-> IF p[1] >= 128 THEN 255 ELSE 0] \o p

\* int8(b) of a byte.
int8(b) == IF b >= 128 THEN b - 256 ELSE b

MinInt8 == -128
MaxInt8 == 127
MinInt16 == -32768
MaxInt16 == 32767
MaxUint8 == 255
MaxUint16 == 65535
MinInt32 == <<255, 255, 255, 255, 128, 0, 0, 0>>
MaxInt32 == <<0, 0, 0, 0, 127, 255, 255, 255>>
MaxUint32 == <<0, 0, 0, 0, 255, 255, 255, 255>>
MinInt64 == <<128, 0, 0, 0, 0, 0, 0, 0>>
MaxInt64 == <<127, 255, 255, 255, 255, 255, 255, 255>>

-----------------------------------------------------------------------------
(* Go values                                                               *)

Null == [t |-> "null"]
VBool(b) == [t |-> "bool", b |-> b]
VInt(n) == [t |-> "int", i |-> I64(n)]
VInt64(a) == [t |-> "int", i |-> a]
VFloat(bits) == [t |-> "float", f |-> bits]
VString(s) == [t |-> "string", s |-> s]
VBytes(p) == [t |-> "bytes", p |-> p]
VList(xs) == [t |-> "list", l |-> xs]
VMap(m) == [t |-> "map", m |-> m]
Structure(sig, fields) == [t |-> "struct", sig |-> sig, fields |-> fields]

\* A time.Time: the zero time (January 1 of year 1, zero = TRUE), or the
\* instant ns nanoseconds after January 1, 1970 UTC.
VTime(zero, ns) == [t |-> "time", zero |-> zero, ns |-> ns]

\* A uint64 (u: its 8 bytes, big-endian).
VUint(u) == [t |-> "uint", u |-> u]

\* A non-nil pointer to a value of a type whose pointer has the MarshalPS
\* method (as *marshaller): under is the value pointed to, ps and perr are
\* what MarshalPS returns.
VMarshaler(under, ps, perr) ==
    [t |-> "marshaler", under |-> under, ps |-> ps, perr |-> perr]

\* The empty map, and a map with one more entry.
EmptyMap == [k \in {} |-> Null]
MapSet(m, k, v) == [x \in (DOMAIN m) \cup {k} |-> IF x = k THEN v ELSE m[x]]
MapDel(m, k) == [x \in (DOMAIN m) \ {k} |-> m[x]]

\* Lexicographic order on strings (a proper prefix sorts first).
StrLT(a, b) ==
    \/ Len(a) < Len(b) /\ a = SubSeq(b, 1, Len(a))
    \/ \E i \in 1..Len(a) : /\ i <= Len(b)
                            /\ a[i] < b[i]
                            /\ \A j \in 1..(i - 1) : a[j] = b[j]

RECURSIVE SortedKeys(_)
SortedKeys(S) ==
    IF S = {} THEN <<>>
    ELSE LET k == CHOOSE x \in S : \A y \in S \ {x} : StrLT(x, y)
         IN  <<k>> \o SortedKeys(S \ {k})

Reverse(s) == [i \in 1..Len(s) |-> s[Len(s) + 1 - i]]

-----------------------------------------------------------------------------
(* The encoder.  e = [buf, left, ord, failed]: buf is what the writer received;     *)
(* left is the number of Write calls the writer still accepts (-1: it never *)
(* fails, as a bytes.Buffer); ord is the order reflect's MapKeys yields for *)
(* the maps still to come (Go leaves it unspecified): one flag for each map *)
(* of two or more entries, TRUE for the descending key order; failed is the *)
(* error the writer returned to a Write call, "nil" while it returned none. *)

NewEncoder(left, ord) == [buf |-> <<>>, left |-> left, ord |-> ord, failed |-> "nil"]

ER(e, er) == [e |-> e, err |-> er]

\* e.wr.Write(p)
Write(e, p) ==
    IF e.left = 0 THEN ER([e EXCEPT !.failed = "ErrWrite"], "ErrWrite")
    ELSE ER([e EXCEPT !.buf = e.buf \o p,
                      !.left = IF e.left > 0 THEN e.left - 1 ELSE e.left], "nil")

\* Successive writes, each returning at the first error:
\*   if _, err = e.wr.Write(..); err != nil { return }
RECURSIVE WriteAll(_, _)
WriteAll(e, ws) ==
    IF ws = <<>> THEN ER(e, "nil")
    ELSE LET r == Write(e, Head(ws))
         IN  IF r.err # "nil" THEN r ELSE WriteAll(r.e, Tail(ws))

\* The low w bytes of the length n (an int, 64 bits wide), big-endian:
\* packedUint8Sizes[n], packedUint16Sizes[n], packedUint32Size(uint32(n)).
packedUint8Sizes(n) == SubSeq(n, 8, 8)
packedUint16Sizes(n) == SubSeq(n, 7, 8)
packedUint32Size(n) == SubSeq(n, 5, 8)

\* tinyStringSizes[n] and its like: the one byte start + n.
tinySizes(start, n) == <<start + n[8]>>

HR(er, ws) == [err |-> er, ws |-> ws]

\* The size switch of marshalString: the writes it makes for the length n.
marshalStringHeader(n) ==
    IF LT64(n, I64(maxInt4)) THEN HR("nil", <<tinySizes(mTinyStringStart, n)>>)
    ELSE IF LE64(n, I64(MaxUint8))
         THEN HR("nil", <<<<mStringSize8>>, packedUint8Sizes(n)>>)
    ELSE IF LE64(n, I64(MaxUint16))
         THEN HR("nil", <<<<mStringSize16>>, packedUint16Sizes(n)>>)
    ELSE IF LE64(n, MaxUint32)
         THEN HR("nil", <<<<mStringSize32>>, packedUint32Size(n)>>)
    ELSE HR("ErrMarshalValueTooLarge", <<>>)

\* The size switch of marshalByteSlice (no tiny form).
marshalByteSliceHeader(n) ==
    IF LE64(n, I64(MaxUint8))
         THEN HR("nil", <<<<mBytesSize8>>, packedUint8Sizes(n)>>)
    ELSE IF LE64(n, I64(MaxUint16))
         THEN HR("nil", <<<<mBytesSize16>>, packedUint16Sizes(n)>>)
    ELSE IF LE64(n, MaxUint32)
         THEN HR("nil", <<<<mBytesSize32>>, packedUint32Size(n)>>)
    ELSE HR("ErrMarshalValueTooLarge", <<>>)

\* The size switch of marshalStruct (no 32-bit form).
marshalStructHeader(n) ==
    IF LT64(n, I64(maxInt4)) THEN HR("nil", <<tinySizes(mTinyStructStart, n)>>)
    ELSE IF LE64(n, I64(MaxUint8))
         THEN HR("nil", <<<<mStructSize8>>, packedUint8Sizes(n)>>)
    ELSE IF LE64(n, I64(MaxUint16))
         THEN HR("nil", <<<<mStructSize16>>, packedUint16Sizes(n)>>)
    ELSE HR("ErrMarshalValueTooLarge", <<>>)

\* The size switch of marshalMap.
marshalMapHeader(n) ==
    IF LT64(n, I64(maxInt4)) THEN HR("nil", <<tinySizes(mTinyMapStart, n)>>)
    ELSE IF LE64(n, I64(MaxUint8))
         THEN HR("nil", <<<<mMapSize8>>, packedUint8Sizes(n)>>)
    ELSE IF LE64(n, I64(MaxUint16))
         THEN HR("nil", <<<<mMapSize16>>, packedUint16Sizes(n)>>)
    ELSE IF LE64(n, MaxUint32)
         THEN HR("nil", <<<<mMapSize32>>, packedUint32Size(n)>>)
    ELSE HR("ErrMarshalValueTooLarge", <<>>)

\* The size switch of marshalList with the 8-bit class ending one short:
\* n < math.MaxUint8.
marshalListHeaderShort(n) ==
    IF LT64(n, I64(maxInt4)) THEN HR("nil", <<tinySizes(mTinyListStart, n)>>)
    ELSE IF LT64(n, I64(MaxUint8))
         THEN HR("nil", <<<<mListSize8>>, packedUint8Sizes(n)>>)
    ELSE IF LE64(n, I64(MaxUint16))
         THEN HR("nil", <<<<mListSize16>>, packedUint16Sizes(n)>>)
    ELSE IF LE64(n, MaxUint32)
         THEN HR("nil", <<<<mListSize32>>, packedUint32Size(n)>>)
    ELSE HR("ErrMarshalValueTooLarge", <<>>)

\* The size switch of marshalList.
marshalListHeader(n) ==
    IF LT64(n, I64(maxInt4)) THEN HR("nil", <<tinySizes(mTinyListStart, n)>>)
    ELSE IF LE64(n, I64(MaxUint8))
         THEN HR("nil", <<<<mListSize8>>, packedUint8Sizes(n)>>)
    ELSE IF LE64(n, I64(MaxUint16))
         THEN HR("nil", <<<<mListSize16>>, packedUint16Sizes(n)>>)
    ELSE IF LE64(n, MaxUint32)
         THEN HR("nil", <<<<mListSize32>>, packedUint32Size(n)>>)
    ELSE HR("ErrMarshalValueTooLarge", <<>>)

\* A header's writes, or its error with nothing written.
WriteHeader(e, h) == IF h.err # "nil" THEN ER(e, h.err) ELSE WriteAll(e, h.ws)

\* marshalNull writing the end-of-stream marker for the null one.
marshalNullAsEnd(e) == Write(e, <<mEndOfStream>>)

marshalNull(e) == Write(e, <<mNull>>)

marshalBool(e, rv) == IF rv.b THEN Write(e, <<mTrue>>) ELSE Write(e, <<mFalse>>)

marshalFloat(e, rv) == WriteAll(e, <<<<mFloat64>>, rv.f>>)

\* The band switch with the tiny band ending one short: n < math.MaxInt8.
marshalIntBandShort(n) ==
    IF LE64(I64(minTinyInt), n) /\ LT64(n, I64(MaxInt8))
         THEN <<SubSeq(n, 8, 8)>>
    ELSE IF LE64(I64(MinInt8), n) /\ LT64(n, I64(minTinyInt))
         THEN <<<<mInt8>>, SubSeq(n, 8, 8)>>
    ELSE IF LE64(I64(MinInt16), n) /\ LE64(n, I64(MaxInt16))
         THEN <<<<mInt16>>, SubSeq(n, 7, 8)>>
    ELSE IF LE64(MinInt32, n) /\ LE64(n, MaxInt32)
         THEN <<<<mInt32>>, SubSeq(n, 5, 8)>>
    ELSE <<<<mInt64>>, n>>

\* The band switch of marshalInt on the int64 n: the writes it makes.
\* byte(n), int8(n), int16(n), int32(n) keep the low 1, 1, 2, 4 bytes.
marshalIntBand(n) ==
    IF LE64(I64(minTinyInt), n) /\ LE64(n, I64(MaxInt8))
         THEN <<SubSeq(n, 8, 8)>>
    ELSE IF LE64(I64(MinInt8), n) /\ LT64(n, I64(minTinyInt))
         THEN <<<<mInt8>>, SubSeq(n, 8, 8)>>
    ELSE IF LE64(I64(MinInt16), n) /\ LE64(n, I64(MaxInt16))
         THEN <<<<mInt16>>, SubSeq(n, 7, 8)>>
    ELSE IF LE64(MinInt32, n) /\ LE64(n, MaxInt32)
         THEN <<<<mInt32>>, SubSeq(n, 5, 8)>>
    ELSE IF LE64(MinInt64, n) /\ LE64(n, MaxInt64)
         THEN <<<<mInt64>>, n>>
    ELSE <<>>

\* un > math.MaxInt64 with no check at all.
NeverTooLarge(un) == FALSE

\* un > math.MaxInt64 on the uint64 un: its top bit is set.
TooLarge(un) == un[1] >= 128

\* marshalInt: n = rv.Int() for the signed kinds; for the unsigned kinds
\* n = int64(un) once un > math.MaxInt64 has returned the error.
marshalInt(e, rv) ==
    IF rv.t = "uint"
    THEN IF TooLarge(rv.u) THEN ER(e, "ErrMarshalValueTooLarge")
         ELSE WriteAll(e, marshalIntBand(rv.u))
    ELSE WriteAll(e, marshalIntBand(rv.i))

\* marshalTime: Encode(0) for the zero time, else Encode(tm.UnixNano());
\* Encode of an int or an int64 is marshalInt.
marshalTime(e, rv) ==
    IF rv.zero THEN marshalInt(e, VInt(0)) ELSE marshalInt(e, VInt64(rv.ns))

\* marshalMarshaler: the bytes of v.MarshalPS() go to the writer and nil is
\* returned whatever the writer said; the error of MarshalPS is returned.
marshalMarshaler(e, v) ==
    IF v.perr = "nil" THEN ER(Write(e, v.ps).e, "nil") ELSE ER(e, v.perr)

marshalString(e, rv) ==
    LET h == WriteHeader(e, marshalStringHeader(I64(Len(rv.s))))
    IN  IF h.err # "nil" THEN h ELSE Write(h.e, rv.s)

marshalByteSlice(e, rv) ==
    LET h == WriteHeader(e, marshalByteSliceHeader(I64(Len(rv.p))))
    IN  IF h.err # "nil" THEN h ELSE Write(h.e, rv.p)

\* rv.MapKeys(): ascending or descending, as the next flag of e.ord says.
MapKeys(e, m) ==
    IF Cardinality(DOMAIN m) >= 2 /\ e.ord # <<>> /\ Head(e.ord)
    THEN Reverse(SortedKeys(DOMAIN m))
    ELSE SortedKeys(DOMAIN m)

AfterMapKeys(e, m) ==
    IF Cardinality(DOMAIN m) >= 2 /\ e.ord # <<>>
    THEN [e EXCEPT !.ord = Tail(e.ord)]
    ELSE e

RECURSIVE marshal(_, _), marshalElems(_, _, _), marshalEntries(_, _, _, _)

\* marshal on a value of kind Interface holding x (an element of a list, a
\* value of a map, a field of a structure): a Marshaler is asked for its
\* bytes, anything else goes to marshal(rv.Elem()).
marshalInterface(e, x) ==
    IF x.t = "marshaler" THEN marshalMarshaler(e, x) ELSE marshal(e, x)

\* for i := 0; i < n; i++ { if err = e.marshal(xs.Index(i)); err != nil { return } }
marshalElems(e, xs, i) ==
    IF i > Len(xs) THEN ER(e, "nil")
    ELSE CHOOSE res \in
           { IF r.err # "nil" THEN r ELSE marshalElems(r.e, xs, i + 1)
             : r \in {marshalInterface(e, xs[i])} } : TRUE

\* for _, k := range rv.MapKeys() { marshal(k); marshal(rv.MapIndex(k)) }
marshalEntries(e, m, ks, i) ==
    IF i > Len(ks) THEN ER(e, "nil")
    ELSE CHOOSE res \in
           { IF rk.err # "nil" THEN rk
             ELSE CHOOSE res2 \in
                    { IF rx.err # "nil" THEN rx
                      ELSE marshalEntries(rx.e, m, ks, i + 1)
                      : rx \in {marshalInterface(rk.e, m[ks[i]])} } : TRUE
             : rk \in {marshal(e, VString(ks[i]))} } : TRUE

marshalList(e, rv) ==
    LET h == WriteHeader(e, marshalListHeader(I64(Len(rv.l))))
    IN  IF h.err # "nil" THEN h ELSE marshalElems(h.e, rv.l, 1)

marshalMap(e, rv) ==
    LET h == WriteHeader(e, marshalMapHeader(I64(Cardinality(DOMAIN rv.m))))
    IN  IF h.err # "nil" THEN h
        ELSE marshalEntries(AfterMapKeys(h.e, rv.m), rv.m, MapKeys(h.e, rv.m), 1)

\* marshalStruct with no signature byte between the header and the fields.
marshalStructNoSignature(e, rv) ==
    LET h == WriteHeader(e, marshalStructHeader(I64(Len(rv.fields))))
    IN  IF h.err # "nil" THEN h ELSE marshalElems(h.e, rv.fields, 1)

\* The signature byte is written with its error dropped: e.wr.Write([]byte{sig}).
marshalStruct(e, rv) ==
    LET h == WriteHeader(e, marshalStructHeader(I64(Len(rv.fields))))
    IN  IF h.err # "nil" THEN h
        ELSE marshalElems(Write(h.e, <<rv.sig>>).e, rv.fields, 1)

\* marshal on a value that is not of kind Interface: a nil pointer, slice,
\* map or interface is the null value; a pointer is followed to what it
\* points to (the pointer to a Marshaler too); the other values go by kind.
marshal(e, rv) ==
    CASE rv.t = "null" -> marshalNull(e)
      [] rv.t = "marshaler" -> marshal(e, rv.under)
      [] rv.t \in {"int", "uint"} -> marshalInt(e, rv)
      [] rv.t = "float" -> marshalFloat(e, rv)
      [] rv.t = "bool" -> marshalBool(e, rv)
      [] rv.t = "string" -> marshalString(e, rv)
      [] rv.t = "bytes" -> marshalByteSlice(e, rv)
      [] rv.t = "list" -> marshalList(e, rv)
      [] rv.t = "map" -> marshalMap(e, rv)
      [] rv.t = "struct" -> marshalStruct(e, rv)
      [] rv.t = "time" -> marshalTime(e, rv)
      [] OTHER -> ER(e, "ErrMarshalTypeError")

\* Encoder.Encode
Encode(e, v) == IF v = Null THEN marshalNull(e) ELSE marshal(e, v)

\* Marshal: Encode on a fresh bytes.Buffer; p is nil when Encode failed.
Marshal(v, ord) ==
    CHOOSE res \in
      { [p |-> IF r.err = "nil" THEN r.e.buf ELSE <<>>, err |-> r.err]
        : r \in {Encode(NewEncoder(-1, ord), v)} } : TRUE

-----------------------------------------------------------------------------
(* The decoder.  d is the decodeState: [hasStream, stream, bytes, cursor,   *)
(* marker, eos].  With hasStream the bytes are read off the stream (what is *)
(* left of it), otherwise from bytes at cursor.                             *)
(*                                                                         *)
(* A sink rv is the reflect.Value decoded into:                            *)
(*   [k |-> "iface",  v |-> a Go value]        interface{}                 *)
(*   [k |-> "string", s |-> bytes]             string                      *)
(*   [k |-> "slice",  arr, len, set]           []interface{}: the backing  *)
(*        array up to its capacity, the length, and whether the slice      *)
(*        header can be set (false for the slice held in an interface)     *)
(*   [k |-> "map",    m |-> function, nil]     map[string]interface{}      *)
(*   [k |-> "struct", sig, fields]             Structure                   *)
(*   [k |-> "um",     need, calls]             a type with UnmarshalPS     *)
(*   [k |-> "int",    signed, bits, x]         int8..int64, uint8..uint64  *)
(*   [k |-> "array",  arr, len, set]           [len]interface{}            *)
(*   [k |-> "ptr",    nil, to]                 *T, to the sink T           *)
(*   [k |-> "time",   zero, ns]                time.Time                   *)
(* Errors: "nil", "EOF" (io.EOF), "ErrUnMarshalTypeError", and "panic" for *)
(* a panic that leaves Unmarshal (reflect panics with a string, which the  *)
(* recover of unmarshal cannot assert to an error).                        *)

NewDecodeState(data) ==
    [hasStream |-> FALSE, stream |-> <<>>, bytes |-> data, cursor |-> 0,
     marker |-> 0, eos |-> FALSE]

NewStreamDecodeState(stream) ==
    [hasStream |-> TRUE, stream |-> stream, bytes |-> <<>>, cursor |-> 0,
     marker |-> 0, eos |-> FALSE]

Iface(v) == [k |-> "iface", v |-> v]
StringSink(s) == [k |-> "string", s |-> s]
SliceSink(arr, n, set) == [k |-> "slice", arr |-> arr, len |-> n, set |-> set]
MapSink(m, isNil) == [k |-> "map", m |-> m, nil |-> isNil]
StructSink(sig, fields) == [k |-> "struct", sig |-> sig, fields |-> fields]

\* A pointer variable: nil or not, and what it points to (when nil, the zero
\* value a new target would have).
PtrSink(isNil, to) == [k |-> "ptr", nil |-> isNil, to |-> to]

\* A fixed array [m]interface{} holding arr.
ArraySink(arr) == [k |-> "array", arr |-> arr, len |-> Len(arr), set |-> FALSE]

\* An integer variable: int8..int64 (signed) or uint8..uint64, x its value
\* as 64 bits.
IntSink(signed, bits, x) == [k |-> "int", signed |-> signed, bits |-> bits, x |-> x]

\* A time.Time variable.
TimeSink(zero, ns) == [k |-> "time", zero |-> zero, ns |-> ns]

\* A variable of a type whose pointer has the UnmarshalPS method (the sink of
\* Unmarshal(data, &x)), and the pointer to such a variable as a Go value
\* (what an interface{} holds): need is the number of bytes the hook reads,
\* calls the markers and bytes its calls got.
UmSink(need, calls) == [k |-> "um", need |-> need, calls |-> calls]
VUnmarshaler(need, calls) == [t |-> "umptr", need |-> need, calls |-> calls]

RECURSIVE Nils(_)
Nils(n) == IF n = 0 THEN <<>> ELSE Append(Nils(n - 1), Null)

DR(dd, rv, er) == [d |-> dd, rv |-> rv, err |-> er]

\* readBytes without its length checks: a short read is returned as s bytes,
\* zero where the input has none, and no error.
readBytesUnchecked(dd, s) ==
    LET rest == IF dd.hasStream THEN dd.stream
                ELSE SubSeq(dd.bytes, dd.cursor + 1, Len(dd.bytes))
        p == [i \in 1..s |-> IF i <= Len(rest) THEN rest[i] ELSE 0]
    IN  IF dd.hasStream
        THEN [d |-> [dd EXCEPT !.stream = SubSeq(rest, s + 1, Len(rest))],
              p |-> p, err |-> "nil"]
        ELSE [d |-> [dd EXCEPT !.cursor = IF Len(rest) < s THEN Len(dd.bytes)
                                          ELSE dd.cursor + s],
              p |-> p, err |-> "nil"]

\* readBytes with no mapping of io.ErrUnexpectedEOF: a stream that ends
\* inside the s bytes gives the error of io.ReadFull as it is.
readBytesUnmapped(dd, s) ==
    IF dd.hasStream
    THEN IF Len(dd.stream) >= s
         THEN [d |-> [dd EXCEPT !.stream = SubSeq(dd.stream, s + 1, Len(dd.stream))],
               p |-> SubSeq(dd.stream, 1, s), err |-> "nil"]
         ELSE [d |-> [dd EXCEPT !.stream = <<>>], p |-> <<>>,
               err |-> IF dd.stream = <<>> THEN "EOF" ELSE "ErrUnexpectedEOF"]
    ELSE IF Len(dd.bytes) - dd.cursor < s
         THEN [d |-> [dd EXCEPT !.cursor = Len(dd.bytes)], p |-> <<>>, err |-> "EOF"]
         ELSE [d |-> [dd EXCEPT !.cursor = dd.cursor + s],
               p |-> SubSeq(dd.bytes, dd.cursor + 1, dd.cursor + s), err |-> "nil"]

\* readBytes that moves the cursor by s before it looks at what is left.
readBytesOverrun(dd, s) ==
    IF dd.hasStream
    THEN IF Len(dd.stream) >= s
         THEN [d |-> [dd EXCEPT !.stream = SubSeq(dd.stream, s + 1, Len(dd.stream))],
               p |-> SubSeq(dd.stream, 1, s), err |-> "nil"]
         ELSE [d |-> [dd EXCEPT !.stream = <<>>], p |-> <<>>, err |-> "EOF"]
    ELSE IF Len(dd.bytes) - dd.cursor < s
         THEN [d |-> [dd EXCEPT !.cursor = dd.cursor + s], p |-> <<>>, err |-> "EOF"]
         ELSE [d |-> [dd EXCEPT !.cursor = dd.cursor + s],
               p |-> SubSeq(dd.bytes, dd.cursor + 1, dd.cursor + s), err |-> "nil"]

\* readBytes: s bytes and the state after them, or io.EOF.  On a stream
\* io.ReadFull gives io.EOF when nothing is left and io.ErrUnexpectedEOF
\* when the stream ends inside the s bytes: both are returned as io.EOF.
readBytes(dd, s) ==
    IF dd.hasStream
    THEN IF Len(dd.stream) >= s
         THEN [d |-> [dd EXCEPT !.stream = SubSeq(dd.stream, s + 1, Len(dd.stream))],
               p |-> SubSeq(dd.stream, 1, s), err |-> "nil"]
         ELSE [d |-> [dd EXCEPT !.stream = <<>>], p |-> <<>>, err |-> "EOF"]
    ELSE IF Len(dd.bytes) - dd.cursor < s
         THEN [d |-> [dd EXCEPT !.cursor = Len(dd.bytes)], p |-> <<>>, err |-> "EOF"]
         ELSE [d |-> [dd EXCEPT !.cursor = dd.cursor + s],
               p |-> SubSeq(dd.bytes, dd.cursor + 1, dd.cursor + s), err |-> "nil"]

\* readMarker: one byte into d.marker.
readMarker(dd) ==
    LET r == readBytes(dd, 1)
    IN  IF r.err # "nil" THEN [d |-> r.d, err |-> r.err]
        ELSE [d |-> [r.d EXCEPT !.marker = r.p[1]], err |-> "nil"]

\* readSize: s bytes as a big-endian unsigned integer.
readSize(dd, s) ==
    LET r == readBytes(dd, s)
    IN  IF r.err # "nil" THEN [d |-> r.d, ui |-> 0, err |-> r.err]
        ELSE [d |-> r.d, ui |-> UInt(r.p), err |-> "nil"]

\* The size of a tiny or sized string, list, map, struct or byte slice for
\* the marker read: the low nibble, or the 1, 2 or 4 size bytes of the three
\* sized markers; a marker that is none of them reads nothing (size 0).
sizeOf(dd, tinyStart, m8, m16, m32) ==
    IF tinyStart >= 0 /\ (dd.marker \div 16) * 16 = tinyStart
    THEN [d |-> dd, ui |-> dd.marker % 16, err |-> "nil"]
    ELSE IF dd.marker = m8 THEN readSize(dd, 1)
    ELSE IF dd.marker = m16 THEN readSize(dd, 2)
    ELSE IF dd.marker = m32 THEN readSize(dd, 4)
    ELSE [d |-> dd, ui |-> 0, err |-> "nil"]

\* indirect: the Unmarshaler v leads to, or the value to decode into.  The
\* address of a variable whose pointer has the method is an Unmarshaler for
\* any marker (the pointer Unmarshal was given cannot be set); an interface
\* holding a pointer to such a variable is entered unless null is decoded.
\* A pointer is followed, and allocated when nil, down to the first value
\* that is not a pointer; when null is decoded the walk stops at the last
\* pointer (one that is nil or points to no pointer).  depth is the number
\* of pointers followed.
RECURSIVE indirect(_, _)
indirect(rv, decodingNull) ==
    IF rv.k = "um" THEN [um |-> TRUE, rv |-> rv, depth |-> 0]
    ELSE IF rv.k = "iface" /\ rv.v.t = "umptr" /\ ~decodingNull
         THEN [um |-> TRUE, rv |-> rv, depth |-> 0]
    ELSE IF rv.k = "ptr" /\ decodingNull /\ (rv.nil \/ rv.to.k # "ptr")
         THEN [um |-> FALSE, rv |-> rv, depth |-> 0]
    ELSE IF rv.k = "ptr"
         THEN [indirect(rv.to, decodingNull) EXCEPT !.depth = @ + 1]
    ELSE [um |-> FALSE, rv |-> rv, depth |-> 0]

\* rv after the value indirect led to, depth pointers down, became inner:
\* the pointers on the way are no longer nil.
RECURSIVE Stored(_, _, _)
Stored(rv, depth, inner) ==
    IF depth = 0 THEN inner
    ELSE [rv EXCEPT !.nil = FALSE, !.to = Stored(rv.to, depth - 1, inner)]

\* UnmarshalPS(marker, rd) of the modelled Unmarshaler u: it reads u.need
\* bytes off rd (io.ReadFull) and keeps the marker and the bytes it got.
UnmarshalPS(u, marker, rd) ==
    LET n == IF u.need <= Len(rd) THEN u.need ELSE Len(rd)
    IN  [u |-> [u EXCEPT !.calls = Append(@, [mk |-> marker, bs |-> SubSeq(rd, 1, n)])],
         n |-> n,
         err |-> IF n = u.need THEN "nil" ELSE "ErrUnexpectedEOF"]

\* d.cursor left where it was.
CursorKept(dd, n) == dd

\* d.cursor += uint64(i - rd.Len())
CursorAdvanced(dd, n) == [dd EXCEPT !.cursor = dd.cursor + n]

\* unmarshalUnmarshaler: the hook reads from the stream itself, or from a
\* bytes.Reader on d.bytes[d.cursor:], after which the cursor moves by what
\* the hook read.  rv is the Unmarshaler or the interface holding it.
unmarshalUnmarshaler(dd, rv) ==
    LET u == IF rv.k = "iface" THEN rv.v ELSE rv
        rd == IF dd.hasStream THEN dd.stream
              ELSE SubSeq(dd.bytes, dd.cursor + 1, Len(dd.bytes))
        h == UnmarshalPS(u, dd.marker, rd)
    IN  DR(IF dd.hasStream THEN [dd EXCEPT !.stream = SubSeq(rd, h.n + 1, Len(rd))]
           ELSE CursorAdvanced(dd, h.n),
           IF rv.k = "iface" THEN [rv EXCEPT !.v = h.u] ELSE h.u,
           h.err)

\* The sink left as it was.
Kept(rv) == rv

\* reflect.Zero of the sink's type.
RECURSIVE Zero(_)
Zero(rv) ==
    CASE rv.k = "iface" -> Iface(Null)
      [] rv.k = "int" -> [rv EXCEPT !.x = I64(0)]
      [] rv.k = "ptr" -> [rv EXCEPT !.nil = TRUE, !.to = Zero(rv.to)]
      [] rv.k = "um" -> [rv EXCEPT !.calls = <<>>]
      [] rv.k = "string" -> StringSink(<<>>)
      [] rv.k = "slice" -> SliceSink(<<>>, 0, rv.set)
      [] rv.k = "array" -> [rv EXCEPT !.arr = Nils(rv.len)]
      [] rv.k = "map" -> MapSink(EmptyMap, TRUE)
      [] rv.k = "struct" -> StructSink(0, <<>>)
      [] rv.k = "time" -> TimeSink(TRUE, I64(0))
      [] OTHER -> rv

\* unmarshalNull: the hook of an Unmarshaler, else the value indirect stops
\* at is set to the zero value of its type.
unmarshalNull(dd, rv) ==
    LET ind == indirect(rv, TRUE)
    IN  IF ind.um
        THEN [unmarshalUnmarshaler(dd, ind.rv)
              EXCEPT !.rv = Stored(rv, ind.depth, @)]
        ELSE DR(dd, Stored(rv, ind.depth, Zero(ind.rv)), "nil")

\* The int64 of the marker's band, read before the sink's kind is looked at.
unmarshalIntValue(dd) ==
    IF minTinyInt <= int8(dd.marker)
    THEN [d |-> dd, v |-> SignExtend(<<dd.marker>>), err |-> "nil"]
    ELSE LET w == CASE dd.marker = mInt8 -> 1
                    [] dd.marker = mInt16 -> 2
                    [] dd.marker = mInt32 -> 4
                    [] dd.marker = mInt64 -> 8
                    [] OTHER -> 0
             r == readBytes(dd, w)
         IN  IF w = 0 THEN [d |-> dd, v |-> I64(0), err |-> "nil"]
             ELSE IF r.err # "nil" THEN [d |-> r.d, v |-> I64(0), err |-> r.err]
             ELSE [d |-> r.d, v |-> SignExtend(r.p), err |-> "nil"]

\* The low rv.bits bits of the 64-bit x, extended back to 64 bits by the
\* sign for a signed kind, by zeros for an unsigned one: what SetInt and
\* SetUint store, and what OverflowInt and OverflowUint compare x with.
Truncated(rv, x) ==
    LET low == SubSeq(x, 9 - rv.bits \div 8, 8)
    IN  IF rv.signed THEN SignExtend(low)
        ELSE [i \in 1..(8 - Len(low)) |-> 0] \o low

\* An overflow check that never finds one.
NoOverflow(rv, x) == FALSE

\* rv.OverflowInt(x), rv.OverflowUint(x)
Overflow(rv, x) == x # Truncated(rv, x)

\* unmarshalInt: the value is read first; then the kind of the sink decides.
\* An unsigned sink refuses v < 0 and what overflows it, a signed sink what
\* overflows it; SetInt and SetUint keep the sink's width.  A time.Time
\* gets time.Unix(0, v).UTC(), or the zero time when v is 0.
unmarshalInt(dd, rv) ==
    LET r == unmarshalIntValue(dd)
    IN  IF r.err # "nil" THEN DR(r.d, rv, r.err)
        ELSE IF rv.k = "iface" THEN DR(r.d, Iface(VInt64(r.v)), "nil")
        ELSE IF rv.k = "int" /\ ~rv.signed /\ LT64(r.v, I64(0))
             THEN DR(r.d, rv, "ErrUnMarshalTypeError")
        ELSE IF rv.k = "int" /\ Overflow(rv, r.v)
             THEN DR(r.d, rv, "ErrUnMarshalTypeError")
        ELSE IF rv.k = "int" THEN DR(r.d, [rv EXCEPT !.x = Truncated(rv, r.v)], "nil")
        ELSE IF rv.k = "time"
             THEN DR(r.d, IF r.v # I64(0) THEN TimeSink(FALSE, r.v)
                          ELSE TimeSink(TRUE, I64(0)), "nil")
        ELSE DR(r.d, rv, "ErrUnMarshalTypeError")

unmarshalString(dd, rv) ==
    LET sz == sizeOf(dd, mTinyStringStart, mStringSize8, mStringSize16, mStringSize32)
        r == readBytes(sz.d, sz.ui)
    IN  IF sz.err # "nil" THEN DR(sz.d, rv, sz.err)
        ELSE IF r.err # "nil" THEN DR(r.d, rv, r.err)
        ELSE IF rv.k = "iface" THEN DR(r.d, Iface(VString(r.p)), "nil")
        ELSE IF rv.k = "string" THEN DR(r.d, StringSink(r.p), "nil")
        ELSE DR(r.d, rv, "ErrUnMarshalTypeError")

unmarshalBytes(dd, rv) ==
    LET sz == sizeOf(dd, -1, mBytesSize8, mBytesSize16, mBytesSize32)
        r == readBytes(sz.d, sz.ui)
    IN  IF rv.k # "iface" THEN DR(dd, rv, "ErrUnMarshalTypeError")
        ELSE IF sz.err # "nil" THEN DR(sz.d, rv, sz.err)
        ELSE IF r.err # "nil" THEN DR(r.d, rv, r.err)
        ELSE DR(r.d, Iface(VBytes(r.p)), "nil")

unmarshalBool(dd, rv) ==
    IF rv.k # "iface" THEN DR(dd, rv, "ErrUnMarshalTypeError")
    ELSE DR(dd, Iface(VBool(dd.marker = mTrue)), "nil")

unmarshalFloat(dd, rv) ==
    LET r == readBytes(dd, 8)
    IN  IF r.err # "nil" THEN DR(r.d, rv, r.err)
        ELSE IF rv.k = "iface" THEN DR(r.d, Iface(VFloat(r.p)), "nil")
        ELSE DR(r.d, rv, "ErrUnMarshalTypeError")

RECURSIVE value(_, _), unmarshal(_, _), unmarshalTiny(_, _)
RECURSIVE unmarshalList(_, _), unmarshalSizedList(_, _, _, _)
RECURSIVE unmarshalStreamedList(_, _, _), unmarshalMap(_, _)
RECURSIVE unmarshalMapLoop(_, _, _, _, _, _, _), unmarshalStruct(_, _)
RECURSIVE unmarshalFields(_, _, _)

\* rv.Index(i) of a slice (i from 0), and the slice with that element set.
Index(rv, i) == Iface(rv.arr[i + 1])
WithIndex(rv, i, el) == [rv EXCEPT !.arr[i + 1] = el.v]

Cap(rv) == Len(rv.arr)

\* adjustSliceLen: a longer slice is cut to s; an array has its elements
\* from s on set to the zero value.
adjustSliceLen(rv, s) ==
    IF s < rv.len
    THEN IF rv.k = "array"
         THEN [rv EXCEPT !.arr = SubSeq(rv.arr, 1, s) \o Nils(rv.len - s)]
         ELSE [rv EXCEPT !.len = s]
    ELSE rv

\* unmarshalSizedList: a slice is grown to s; then s elements are decoded,
\* in place while the index is below the length, into the local skipper
\* (and dropped) once a fixed array has run out.
unmarshalSizedList(dd, rv, s, i) ==
    IF rv.k = "slice" /\ i = 0 /\ s > Cap(rv) /\ ~rv.set THEN DR(dd, rv, "panic")
    ELSE IF rv.k = "slice" /\ i = 0 /\ s > Cap(rv)
         THEN unmarshalSizedList(dd, SliceSink(Nils(s), s, rv.set), s, 1)
    ELSE IF rv.k = "slice" /\ i = 0 /\ s > rv.len
         THEN unmarshalSizedList(dd, [rv EXCEPT !.len = s], s, 1)
    ELSE IF i = 0 THEN unmarshalSizedList(dd, rv, s, 1)
    ELSE IF i > s THEN DR(dd, adjustSliceLen(rv, s), "nil")
    ELSE IF i - 1 >= rv.len
         THEN CHOOSE res \in
                { IF r.err # "nil" THEN DR(r.d, rv, r.err)
                  ELSE unmarshalSizedList(r.d, rv, s, i + 1)
                  : r \in {unmarshal(dd, Iface(Null))} } : TRUE
    ELSE CHOOSE res \in
           { IF r.err # "nil" THEN DR(r.d, WithIndex(rv, i - 1, r.rv), r.err)
             ELSE unmarshalSizedList(r.d, WithIndex(rv, i - 1, r.rv), s, i + 1)
             : r \in {value(dd, Index(rv, i - 1))} } : TRUE

\* The slice of unmarshalStreamedList's iteration i, grown when i reaches its
\* capacity (to half as much again, at least 4) and lengthened to hold
\* element i.
GrowAt(rv, i) ==
    LET newcap == IF Cap(rv) + (Cap(rv) \div 2) < 4 THEN 4
                  ELSE Cap(rv) + (Cap(rv) \div 2)
        grown == IF i >= Cap(rv)
                 THEN [rv EXCEPT !.arr =
                          SubSeq(rv.arr, 1, rv.len) \o Nils(newcap - rv.len)]
                 ELSE rv
    IN  IF i >= grown.len THEN [grown EXCEPT !.len = i + 1] ELSE grown

\* unmarshalStreamedList: elements are decoded until one sets d.eos.  The
\* slice held in an interface cannot be set: growing it panics; so does
\* reflect.MakeSlice on the type of an array once i reaches its length.
unmarshalStreamedList(dd, rv, i) ==
    IF i >= Cap(rv) /\ (rv.k = "array" \/ ~rv.set) THEN DR(dd, rv, "panic")
    ELSE LET g == GrowAt(rv, i)
         IN  CHOOSE res \in
               { IF r.err # "nil" THEN DR(r.d, WithIndex(g, i, r.rv), r.err)
                 ELSE IF r.d.eos
                      THEN DR([r.d EXCEPT !.eos = FALSE],
                              adjustSliceLen(WithIndex(g, i, r.rv), i), "nil")
                 ELSE unmarshalStreamedList(r.d, WithIndex(g, i, r.rv), i + 1)
                 : r \in {value(dd, Index(g, i))} } : TRUE

\* The Go value a slice sink holds.
SliceValue(rv) == VList(SubSeq(rv.arr, 1, rv.len))

unmarshalList(dd, rv) ==
    IF rv.k \notin {"slice", "array", "iface"} THEN DR(dd, rv, "ErrUnMarshalTypeError")
    ELSE
    LET sz == sizeOf(dd, mTinyListStart, mListSize8, mListSize16, mListSize32)
        isStream == dd.marker = mListSizeStream
        l == IF rv.k = "iface" THEN SliceSink(Nils(sz.ui), sz.ui, FALSE) ELSE rv
    IN  IF sz.err # "nil" THEN DR(sz.d, rv, sz.err)
        ELSE [(IF ~isStream THEN unmarshalSizedList(sz.d, l, sz.ui, 0)
               ELSE unmarshalStreamedList(sz.d, l, 0))
              EXCEPT !.rv = IF rv.k = "iface" THEN Iface(SliceValue(@)) ELSE @]

\* rv.SetMapIndex(key, value): a nil value (the zero reflect.Value) deletes
\* the key.
SetMapIndex(m, key, val) ==
    IF val = Null THEN MapDel(m, key) ELSE MapSet(m, key, val)

\* The loop of unmarshalMap: key and val are its two locals, kept from one
\* iteration to the next.  rk and rx are the outcomes of the two unmarshal
\* calls of one iteration, each made once.
unmarshalMapLoop(dd, m, isStream, iS, i, key, val) ==
    IF ~isStream /\ i >= iS THEN DR(dd, m, "nil")
    ELSE CHOOSE res \in
           { IF rk.err # "nil" THEN DR(rk.d, m, rk.err)
             ELSE IF rk.d.eos THEN DR(rk.d, m, "nil")
             ELSE CHOOSE res2 \in
                    { IF rx.err # "nil" THEN DR(rx.d, m, rx.err)
                      ELSE unmarshalMapLoop(rx.d,
                                            SetMapIndex(m, rk.rv.s, rx.rv.v),
                                            isStream, iS, i + 1, rk.rv, rx.rv)
                      : rx \in {unmarshal(rk.d, val)} } : TRUE
             : rk \in {unmarshal(dd, key)} } : TRUE

unmarshalMap(dd, rv) ==
    IF rv.k # "map" /\ rv.k # "iface" THEN DR(dd, rv, "ErrUnMarshalTypeError")
    ELSE
    LET m == IF rv.k = "iface" THEN EmptyMap ELSE rv.m
        sz == sizeOf(dd, mTinyMapStart, mMapSize8, mMapSize16, mMapSize32)
        isStream == dd.marker = mMapSizeStream
        Out(x) == IF rv.k = "iface" THEN Iface(VMap(x)) ELSE MapSink(x, FALSE)
    IN  IF sz.err # "nil" THEN DR(sz.d, Out(m), sz.err)
        ELSE [unmarshalMapLoop(sz.d, m, isStream, sz.ui, 0,
                               StringSink(<<>>), Iface(Null))
              EXCEPT !.rv = Out(@)]

\* for i := 0; i < iS; i++ { if err = d.unmarshal(&fields[i]); err != nil { return } }
unmarshalFields(dd, fields, i) ==
    IF i > Len(fields) THEN DR(dd, fields, "nil")
    ELSE CHOOSE res \in
           { IF r.err # "nil" THEN DR(r.d, [fields EXCEPT ![i] = r.rv.v], r.err)
             ELSE unmarshalFields(r.d, [fields EXCEPT ![i] = r.rv.v], i + 1)
             : r \in {unmarshal(dd, Iface(fields[i]))} } : TRUE

unmarshalStruct(dd, rv) ==
    IF rv.k # "struct" /\ rv.k # "iface" THEN DR(dd, rv, "ErrUnMarshalTypeError")
    ELSE
    LET sz == sizeOf(dd, mTinyStructStart, mStructSize8, mStructSize16, -1)
        sg == readBytes(sz.d, 1)
        Out(fs) == IF rv.k = "iface" THEN Iface(Structure(sg.p[1], fs))
                   ELSE StructSink(sg.p[1], fs)
    IN  IF sz.err # "nil" THEN DR(sz.d, rv, sz.err)
        ELSE IF sg.err # "nil" THEN DR(sg.d, rv, sg.err)
        ELSE [unmarshalFields(sg.d, Nils(sz.ui), 1) EXCEPT !.rv = Out(@)]

unmarshalTiny(dd, rv) ==
    LET markerHigh == (dd.marker \div 16) * 16
    IN  CASE markerHigh = mTinyStringStart -> unmarshalString(dd, rv)
          [] markerHigh = mTinyListStart -> unmarshalList(dd, rv)
          [] markerHigh = mTinyMapStart -> unmarshalMap(dd, rv)
          [] markerHigh = mTinyStructStart -> unmarshalStruct(dd, rv)
          [] OTHER -> DR(dd, rv, "nil")

\* The marker switch of value, once the marker is read: a marker with no
\* case of its own leaves err nil and the sink as it was, and the
\* end-of-stream marker only raises d.eos.
valueSwitch(dd, rev) ==
    LET mk == dd.marker
    IN  IF mk >= mTinyStringStart /\ mk <= mTinyStructEnd THEN unmarshalTiny(dd, rev)
        ELSE IF minTinyInt <= int8(mk) THEN unmarshalInt(dd, rev)
        ELSE IF mk \in {mStringSize8, mStringSize16, mStringSize32}
             THEN unmarshalString(dd, rev)
        ELSE IF mk \in {mListSize8, mListSize16, mListSize32, mListSizeStream}
             THEN unmarshalList(dd, rev)
        ELSE IF mk \in {mMapSize8, mMapSize16, mMapSize32, mMapSizeStream}
             THEN unmarshalMap(dd, rev)
        ELSE IF mk \in {mStructSize8, mStructSize16} THEN unmarshalStruct(dd, rev)
        ELSE IF mk \in {mBytesSize8, mBytesSize16, mBytesSize32}
             THEN unmarshalBytes(dd, rev)
        ELSE IF mk \in {mInt8, mInt16, mInt32, mInt64} THEN unmarshalInt(dd, rev)
        ELSE IF mk = mFloat64 THEN unmarshalFloat(dd, rev)
        ELSE IF mk \in {mFalse, mTrue} THEN unmarshalBool(dd, rev)
        ELSE IF mk = mEndOfStream THEN DR([dd EXCEPT !.eos = TRUE], rev, "nil")
        ELSE DR(dd, rev, "nil")

value(dd, rv) ==
    LET m == readMarker(dd)
    IN  IF m.err # "nil" THEN DR(m.d, rv, m.err)
        ELSE IF m.d.marker = mNull THEN unmarshalNull(m.d, rv)
        ELSE LET ind == indirect(rv, FALSE)
             IN  [(IF ind.um THEN unmarshalUnmarshaler(m.d, ind.rv)
                   ELSE valueSwitch(m.d, ind.rv))
                  EXCEPT !.rv = Stored(rv, ind.depth, @)]

\* unmarshal(&x): value on what the pointer points to.  Its recover turns a
\* panic with an error value into that error; a panic with a string leaves
\* it as a panic again.
unmarshal(dd, rv) == value(dd, rv)

\* Unmarshal(data, &x) and Decoder.Decode(&x) on a stream.
Unmarshal(data, rv) == unmarshal(NewDecodeState(data), rv)
Decode(stream, rv) == unmarshal(NewStreamDecodeState(stream), rv)

-----------------------------------------------------------------------------
(* Inputs                                                                  *)

\* Bounds of the inputs: the longest list, map-free nesting on top of the
\* first level of containers, the number of values on one stream.
MaxLen == 2
MaxDepth == 1
MaxStream == 2
MaxSmallInt == 140
MaxSize == 17

KeyA == <<97>>
KeyB == <<98>>
Str16 == [i \in 1..16 |-> 96 + i]
Sig == 42

\* 1.1 as a float64.
Float11 == <<63, 241, 153, 153, 153, 153, 153, 154>>

\* int64 values on both sides of every band boundary.
BandInts ==
    {I64(n) : n \in {0, 1, -1, 42, minTinyInt, minTinyInt - 1, MaxInt8, MaxInt8 + 1,
                     MinInt8, MinInt8 - 1, MaxInt16, MaxInt16 + 1, MinInt16,
                     MinInt16 - 1, 2147483647, -2147483647 - 1}}
      \cup {<<0, 0, 0, 0, 128, 0, 0, 0>>, <<255, 255, 255, 255, 127, 255, 255, 255>>,
            MinInt64, MaxInt64}

Atoms ==
    {Null, VBool(TRUE), VBool(FALSE), VFloat(Float11)}
      \cup {VInt64(a) : a \in BandInts}
      \cup {VString(<<>>), VString(KeyA), VString(<<97, 98>>), VString(Str16)}
      \cup {VBytes(<<>>), VBytes(<<1, 2, 3>>)}

\* What the first level of containers holds.
ElemAtoms == {Null, VInt(1), VString(KeyA)}

SeqsUpTo(S, n) == UNION {[1..k -> S] : k \in 0..n}

MapsOver(K, S) == UNION {[ks -> S] : ks \in SUBSET K}

Level1 ==
    {VList(xs) : xs \in SeqsUpTo(ElemAtoms, MaxLen)}
      \cup {VList(Nils(16))}
      \cup {VMap(m) : m \in MapsOver({KeyA, KeyB}, ElemAtoms)}
      \cup {Structure(Sig, xs) : xs \in SeqsUpTo(ElemAtoms, MaxLen)}

\* One more level of nesting around x.
Wrap(x) ==
    {VList(<<x>>), VMap(MapSet(EmptyMap, KeyA, x)),
     VMap(MapSet(MapSet(EmptyMap, KeyA, x), KeyB, VInt(1))),
     Structure(Sig, <<x>>)}

RECURSIVE Nested(_)
Nested(depth) ==
    IF depth = 0 THEN Level1
    ELSE UNION {Wrap(x) : x \in Nested(depth - 1)}

Values == Atoms \cup UNION {Nested(k) : k \in 0..MaxDepth}

\* The number of maps of two or more entries Marshal meets in v.
RECURSIVE CountMaps(_), CountMapsSeq(_)
CountMapsSeq(xs) ==
    LET RECURSIVE sum(_)
        sum(I) == IF I = {} THEN 0
                  ELSE LET i == CHOOSE j \in I : TRUE
                       IN  CountMaps(xs[i]) + sum(I \ {i})
    IN  sum({i \in 1..Len(xs) : xs[i].t \in {"list", "map", "struct"}})

CountMaps(v) ==
    CASE v.t = "list" -> CountMapsSeq(v.l)
      [] v.t = "struct" -> CountMapsSeq(v.fields)
      [] v.t = "map" ->
           (IF Cardinality(DOMAIN v.m) >= 2 THEN 1 ELSE 0)
             + CountMapsSeq([i \in 1..Len(SortedKeys(DOMAIN v.m)) |->
                               v.m[SortedKeys(DOMAIN v.m)[i]]])
      [] OTHER -> 0

\* The key orders MapKeys may yield while v is marshalled.
Orders(v) == [1..CountMaps(v) -> BOOLEAN]

-----------------------------------------------------------------------------
(* Round trip: Marshal a value, Unmarshal the buffer or a strict prefix of *)
(* it into a generic sink, Marshal what was decoded.                        *)

Idle ==
    /\ wr = <<>>
    /\ encErr = "none"
    /\ d = NewDecodeState(<<>>)
    /\ sink = Iface(Null)
    /\ err = "none"
    /\ out = <<>>
    /\ written = <<>>
    /\ wrErr = "nil"

InitRT ==
    /\ phase = "init"
    /\ given \in {[kind |-> "value", v |-> v] : v \in Values}
    /\ Idle

DoMarshal ==
    /\ phase = "init"
    /\ given.kind = "value"
    /\ \E ord \in Orders(given.v) :
         \E r \in {Marshal(given.v, ord)} :
             /\ wr' = r.p
             /\ encErr' = r.err
    /\ phase' = "marshalled"
    /\ UNCHANGED <<given, d, sink, err, out, written, wrErr>>

DoUnmarshal ==
    /\ phase = "marshalled"
    /\ encErr = "nil"
    /\ \E r \in {Unmarshal(wr, Iface(Null))} :
           /\ d' = r.d
           /\ sink' = r.rv
           /\ err' = r.err
    /\ phase' = "decoded"
    /\ UNCHANGED <<given, wr, encErr, out, written, wrErr>>

DoUnmarshalPrefix ==
    /\ phase = "marshalled"
    /\ encErr = "nil"
    /\ \E n \in 0..(Len(wr) - 1) :
         \E r \in {Unmarshal(SubSeq(wr, 1, n), Iface(Null))} :
             /\ d' = r.d
             /\ sink' = r.rv
             /\ err' = r.err
    /\ phase' = "prefixDecoded"
    /\ UNCHANGED <<given, wr, encErr, out, written, wrErr>>

DoRemarshal ==
    /\ phase = "decoded"
    /\ err = "nil"
    /\ \E ord \in Orders(sink.v) :
         \E r \in {Marshal(sink.v, ord)} :
             /\ out' = r.p
             /\ encErr' = r.err
    /\ phase' = "remarshalled"
    /\ UNCHANGED <<given, wr, d, sink, err, written, wrErr>>

NextRT == DoMarshal \/ DoUnmarshal \/ DoUnmarshalPrefix \/ DoRemarshal

SpecRT == InitRT /\ [][NextRT]_vars

-----------------------------------------------------------------------------
(* Integers: every int64 of -MaxSmallInt..MaxSmallInt and both sides of     *)
(* every band boundary, through the same steps as the round trip.           *)

IntSamples == BandInts \cup {I64(n) : n \in (-MaxSmallInt)..MaxSmallInt}

InitInt ==
    /\ phase = "init"
    /\ given \in {[kind |-> "value", v |-> VInt64(a)] : a \in IntSamples}
    /\ Idle

SpecInt == InitInt /\ [][NextRT]_vars

-----------------------------------------------------------------------------
(* Size headers: the header each marshal function writes for a length       *)
(* n = hi * 65536 + lo, and whole strings, byte slices, lists, maps and     *)
(* structures of 0..MaxSize elements.                                       *)

Kinds == {"string", "bytes", "list", "map", "struct"}

\* The length hi * 65536 + lo as a Go int.
Length(hi, lo) ==
    <<0, 0, 0, hi \div 65536, (hi \div 256) % 256, hi % 256, lo \div 256, lo % 256>>

LengthSamples ==
    {<<0, lo>> : lo \in (0..MaxSize) \cup {254, 255, 256, 257, 65534, 65535}}
      \cup {<<1, 0>>, <<1, 1>>, <<32768, 0>>, <<65535, 65535>>, <<65536, 0>>,
            <<65536, 1>>}

\* A value of the kind with n elements.
Sized(kind, n) ==
    CASE kind = "string" -> VString([i \in 1..n |-> 97])
      [] kind = "bytes" -> VBytes([i \in 1..n |-> 7])
      [] kind = "list" -> VList(Nils(n))
      [] kind = "map" -> VMap([k \in {<<i>> : i \in 1..n} |-> Null])
      [] kind = "struct" -> Structure(Sig, Nils(n))

InitSize ==
    /\ phase = "init"
    /\ given \in {[kind |-> "size", of |-> k, hi |-> hl[1], lo |-> hl[2]] :
                    k \in Kinds, hl \in LengthSamples}
                 \cup {[kind |-> "value", v |-> Sized(k, n)] :
                         k \in Kinds, n \in 0..MaxSize}
    /\ Idle

Concat(ws) ==
    LET RECURSIVE cat(_)
        cat(xs) == IF xs = <<>> THEN <<>> ELSE Head(xs) \o cat(Tail(xs))
    IN  cat(ws)

header(kind, n) ==
    CASE kind = "string" -> marshalStringHeader(n)
      [] kind = "bytes" -> marshalByteSliceHeader(n)
      [] kind = "list" -> marshalListHeader(n)
      [] kind = "map" -> marshalMapHeader(n)
      [] kind = "struct" -> marshalStructHeader(n)

\* The header of a value of given.hi * 65536 + given.lo elements, written
\* to a fresh buffer.
DoSizeHeader ==
    /\ phase = "init"
    /\ given.kind = "size"
    /\ \E r \in {WriteHeader(NewEncoder(-1, <<>>),
                            header(given.of, Length(given.hi, given.lo)))} :
           /\ wr' = r.e.buf
           /\ encErr' = r.err
    /\ phase' = "sized"
    /\ UNCHANGED <<given, d, sink, err, out, written, wrErr>>

NextSize == DoSizeHeader \/ DoMarshal

SpecSize == InitSize /\ [][NextSize]_vars

-----------------------------------------------------------------------------
(* A stream: Encoder.Encode writes the values of given.vals back to back    *)
(* on one buffer, then Decoder.Decode is called once for each.              *)

StreamValues ==
    {Null, VInt(-17), VString(KeyA), VList(<<VInt(1), Null>>),
     VMap(MapSet(EmptyMap, KeyA, VInt(1))), VMap(MapSet(EmptyMap, KeyA, Null)),
     Structure(Sig, <<VString(KeyA)>>), VBytes(<<1, 2, 3>>)}

InitStream ==
    /\ phase = "writing"
    /\ given \in {[kind |-> "stream", vals |-> vs] :
                    vs \in SeqsUpTo(StreamValues, MaxStream) \ {<<>>}}
    /\ Idle

\* enc.Encode(v) for the next value: the encoder appends to the buffer.
DoEncode ==
    /\ phase = "writing"
    /\ Len(written) < Len(given.vals)
    /\ \E r \in {Encode([NewEncoder(-1, <<>>) EXCEPT !.buf = wr],
                        given.vals[Len(written) + 1])} :
           /\ wr' = r.e.buf
           /\ encErr' = r.err
           /\ written' = Append(written, Len(r.e.buf) - Len(wr))
    /\ phase' = IF Len(written') = Len(given.vals) THEN "reading" ELSE "writing"
    /\ UNCHANGED <<given, d, sink, err, out, wrErr>>

\* v = nil; dec.Decode(&v): the decoder reads off the buffer.
DoDecode ==
    /\ phase = "reading"
    /\ Len(out) < Len(given.vals)
    /\ err \in {"none", "nil"}
    /\ \E r \in {Decode(wr, Iface(Null))} :
           /\ d' = r.d
           /\ wr' = r.d.stream
           /\ sink' = r.rv
           /\ err' = r.err
           /\ out' = Append(out, r.rv.v)
    /\ phase' = IF Len(out') = Len(given.vals) THEN "streamDone" ELSE "reading"
    /\ UNCHANGED <<given, encErr, written, wrErr>>

NextStream == DoEncode \/ DoDecode

SpecStream == InitStream /\ [][NextStream]_vars

-----------------------------------------------------------------------------
(* Wire inputs: buffers no Marshal call produces (streamed containers,      *)
(* reserved markers, a bare end-of-stream marker, maps with repeated keys)  *)
(* decoded by Unmarshal into a sink that may already hold something.        *)

\* A value next to one encoding of it.
Item(v, w) == [v |-> v, w |-> w]

Canon(v) == Item(v, Marshal(v, [i \in 1..CountMaps(v) |-> FALSE]).p)

Values_(items) == [i \in 1..Len(items) |-> items[i].v]
Wires(items) == Concat([i \in 1..Len(items) |-> items[i].w])

StreamedList(items) ==
    Item(VList(Values_(items)), <<mListSizeStream>> \o Wires(items) \o <<mEndOfStream>>)

TinyString(k) == <<mTinyStringStart + Len(k)>> \o k

\* entries: a sequence of <<key, item>>.
EntryWires(entries) ==
    Concat([i \in 1..Len(entries) |-> TinyString(entries[i][1]) \o entries[i][2].w])

SizedMapWire(entries) == <<mTinyMapStart + Len(entries)>> \o EntryWires(entries)
StreamedMapWire(entries) == <<mMapSizeStream>> \o EntryWires(entries) \o <<mEndOfStream>>

\* The elements of the streamed lists.
ListItems ==
    {Canon(Null), Canon(VInt(1)), Canon(VString(KeyA)), Canon(VList(<<VInt(1)>>)),
     Canon(VMap(MapSet(EmptyMap, KeyA, VInt(1)))),
     StreamedList(<<Canon(VInt(1))>>),
     Item(VMap(MapSet(EmptyMap, KeyA, VInt(1))),
          StreamedMapWire(<<<<KeyA, Canon(VInt(1))>>>>))}

\* The values of the map entries.
EntryItems == {Canon(Null), Canon(VInt(1)), Canon(VString(KeyA))}

\* C4..C7, CF, D3, DE, E0..EF.
Reserved == (196..199) \cup {207, 211, 222} \cup (224..239)

\* What follows the marker in the buffer.
Rests == {<<>>, <<1>>}

\* map[string]interface{} values a sink may hold before the call.
Maps0 ==
    {EmptyMap, MapSet(EmptyMap, KeyA, VInt(7)),
     MapSet(MapSet(EmptyMap, KeyA, VInt(7)), KeyB, VInt(8))}

StreamedListInputs ==
    {[kind |-> "streamedList", elems |-> xs, wire |-> StreamedList(xs).w, sink0 |-> s] :
       xs \in SeqsUpTo(ListItems, MaxLen),
       s \in {Iface(Null), SliceSink(<<>>, 0, TRUE)}}

ReservedInputs ==
    {[kind |-> "reserved", wire |-> <<m>> \o r, sink0 |-> s] :
       m \in Reserved, r \in Rests,
       s \in {Iface(Null), Iface(VInt(7)), StringSink(KeyA)}}

EndOfStreamInputs ==
    {[kind |-> "endOfStream", wire |-> <<mEndOfStream>> \o r, sink0 |-> s] :
       r \in Rests,
       s \in {Iface(Null), Iface(VInt(7)), SliceSink(<<>>, 0, TRUE)}}

MapInputs ==
    {[kind |-> "map", entries |-> es, m0 |-> m,
      wire |-> IF st THEN StreamedMapWire(es) ELSE SizedMapWire(es),
      sink0 |-> MapSink(m, FALSE)] :
       es \in SeqsUpTo({KeyA, KeyB} \X EntryItems, MaxLen),
       m \in Maps0, st \in BOOLEAN}

\* What a key position holds when it is not a string.
KeyItems ==
    {Canon(VInt(1)), Canon(VBool(TRUE)), Canon(VFloat(Float11)), Canon(Null),
     Canon(VBytes(<<7>>)), Canon(VList(<<VInt(1)>>)), Canon(VMap(EmptyMap)),
     Canon(Structure(Sig, <<>>))}

\* A map of the entries `before`, then the key item `key` with the value 1,
\* in the tiny, 8-bit sized or streamed form.
BadKeyWire(form, before, key) ==
    LET body == EntryWires(before) \o key.w \o Canon(VInt(1)).w
        n == Len(before) + 1
    IN  CASE form = "tiny" -> <<mTinyMapStart + n>> \o body
          [] form = "sized" -> <<mMapSize8, n>> \o body
          [] form = "streamed" -> <<mMapSizeStream>> \o body \o <<mEndOfStream>>

BadKeyInputs ==
    {[kind |-> "badKey", key |-> k, before |-> b, m0 |-> m,
      wire |-> BadKeyWire(f, b, k), sink0 |-> s] :
       k \in KeyItems, b \in {<<>>, <<<<KeyA, Canon(VInt(1))>>>>},
       f \in {"tiny", "sized", "streamed"},
       m \in {EmptyMap}, s \in {MapSink(EmptyMap, FALSE), Iface(Null)}}
      \cup
    {[kind |-> "badKey", key |-> k, before |-> <<>>, m0 |-> m,
      wire |-> BadKeyWire("tiny", <<>>, k), sink0 |-> MapSink(m, FALSE)] :
       k \in KeyItems, m \in Maps0 \ {EmptyMap}}

\* The end-of-stream marker where a container that is not streamed expects
\* an element, a field, a key or a value, after n elements (or entries) and
\* before one more.
EndInsideWire(at, n) ==
    LET ones == [i \in 1..n |-> 1]
        ents == Concat([i \in 1..n |-> TinyString(KeyB) \o <<1>>])
    IN  CASE at = "tiny" -> <<mTinyListStart + n + 2>> \o ones \o <<mEndOfStream, 1>>
          [] at = "sized" -> <<mListSize8, n + 2>> \o ones \o <<mEndOfStream, 1>>
          [] at = "struct" ->
               <<mTinyStructStart + n + 2, Sig>> \o ones \o <<mEndOfStream, 1>>
          [] at = "key" ->
               <<mTinyMapStart + n + 2>> \o ents \o <<mEndOfStream, 1>>
                 \o TinyString(KeyB) \o <<1>>
          [] at = "value" ->
               <<mTinyMapStart + n + 2>> \o ents \o TinyString(KeyA)
                 \o <<mEndOfStream>> \o TinyString(KeyB) \o <<1>>

EndInsideInputs ==
    {[kind |-> "endInside", at |-> at, n |-> n, wire |-> EndInsideWire(at, n),
      sink0 |-> IF generic THEN Iface(Null)
                ELSE CASE at \in {"tiny", "sized"} -> SliceSink(<<>>, 0, TRUE)
                       [] at = "struct" -> StructSink(0, <<>>)
                       [] OTHER -> MapSink(MapSet(EmptyMap, KeyA, VInt(7)), FALSE)] :
       at \in {"tiny", "sized", "struct", "key", "value"}, n \in 0..MaxLen,
       generic \in BOOLEAN}

\* A streamed map of n entries, then the key "a" with the end-of-stream
\* marker where its value is expected, then rest.
EndValueInputs ==
    {[kind |-> "endValue", n |-> n, rest |-> r, m0 |-> m,
      wire |-> <<mMapSizeStream>> \o Concat([i \in 1..n |-> TinyString(KeyB) \o <<1>>])
                 \o TinyString(KeyA) \o <<mEndOfStream>> \o r,
      sink0 |-> IF generic THEN Iface(Null) ELSE MapSink(m, FALSE)] :
       n \in 0..MaxLen, m \in Maps0, generic \in BOOLEAN,
       r \in {<<>>, <<mEndOfStream>>, TinyString(KeyB) \o <<1>>,
              TinyString(KeyB) \o <<1, mEndOfStream>>}}

\* A streamed map (of the entry a: 1, or empty) inside a container that
\* goes on after it: as the first element of a sized list followed by 1 and
\* a sized map, of a streamed list followed by 1, and as the value of the
\* first entry of a sized and of a streamed map.  want is the value on the
\* wire.
AfterMapInputs ==
    LET In(es) == Item(VMap([k \in {es[i][1] : i \in 1..Len(es)} |-> VInt(1)]),
                       StreamedMapWire(es))
        B1 == VMap(MapSet(EmptyMap, KeyB, VInt(1)))
        Outer(sm) == VMap(MapSet(MapSet(EmptyMap, KeyA, sm.v), KeyB, VInt(1)))
        Wire(form, sm) ==
            CASE form = "sizedList" -> <<mTinyListStart + 3>> \o sm.w \o <<1>> \o Canon(B1).w
              [] form = "streamedList" ->
                   <<mListSizeStream>> \o sm.w \o <<1, mEndOfStream>>
              [] form = "sizedMap" ->
                   <<mTinyMapStart + 2>> \o TinyString(KeyA) \o sm.w
                     \o TinyString(KeyB) \o <<1>>
              [] form = "streamedMap" ->
                   <<mMapSizeStream>> \o TinyString(KeyA) \o sm.w
                     \o TinyString(KeyB) \o <<1, mEndOfStream>>
        Want(form, sm) ==
            CASE form = "sizedList" -> VList(<<sm.v, VInt(1), B1>>)
              [] form = "streamedList" -> VList(<<sm.v, VInt(1)>>)
              [] OTHER -> Outer(sm)
        Typed(form) ==
            IF form \in {"sizedList", "streamedList"} THEN SliceSink(<<>>, 0, TRUE)
            ELSE MapSink(EmptyMap, FALSE)
    IN  {[kind |-> "afterMap", form |-> f, wire |-> Wire(f, In(es)),
          want |-> Want(f, In(es)),
          sink0 |-> IF generic /\ f # "streamedList" THEN Iface(Null) ELSE Typed(f)] :
           f \in {"sizedList", "streamedList", "sizedMap", "streamedMap"},
           es \in {<<>>, <<<<KeyA, Canon(VInt(1))>>>>}, generic \in BOOLEAN}

\* The longest read of DoRead.
MaxRead == 2

InitWire ==
    /\ phase = "init"
    /\ given \in StreamedListInputs \cup ReservedInputs \cup EndOfStreamInputs
                   \cup MapInputs \cup BadKeyInputs \cup EndInsideInputs
                   \cup EndValueInputs \cup AfterMapInputs
    /\ Idle

\* Unmarshal(given.wire, &x) where x holds given.sink0.
DoUnmarshalWire ==
    /\ phase = "init"
    /\ \E r \in {Unmarshal(given.wire, given.sink0)} :
           /\ d' = r.d
           /\ sink' = r.rv
           /\ err' = r.err
    /\ phase' = "wireDecoded"
    /\ UNCHANGED <<given, wr, encErr, out, written, wrErr>>

\* NewDecoder(bytes.NewReader(given.wire)).Decode(&x), x holding given.sink0
\* again: the same bytes through the other entry point.
DoDecodeWire ==
    /\ phase = "wireDecoded"
    /\ \E r \in {Decode(given.wire, given.sink0)} :
           /\ d' = r.d
           /\ sink' = r.rv
           /\ err' = r.err
    /\ phase' = "streamDecoded"
    /\ UNCHANGED <<given, wr, encErr, out, written, wrErr>>

\* d.readBytes(s) on the decodeState the call left: written is s, out the
\* bytes returned.
DoRead ==
    /\ phase = "wireDecoded"
    /\ \E s \in 0..MaxRead :
         \E r \in {readBytes(d, s)} :
             /\ d' = r.d
             /\ out' = r.p
             /\ err' = r.err
             /\ written' = <<s>>
    /\ phase' = "read"
    /\ UNCHANGED <<given, wr, encErr, sink, wrErr>>

NextWire == DoUnmarshalWire \/ DoDecodeWire \/ DoRead

SpecWire == InitWire /\ [][NextWire]_vars

-----------------------------------------------------------------------------
(* Encoding to a writer: Encoder.Encode of one value on a writer that      *)
(* accepts given.left Write calls and fails the next (-1: never fails).     *)
(* The values are the universal ones, unsigned integers, and pointers to    *)
(* Marshalers at the top level and inside a list, a map and a structure.    *)

MaxWrites == 3

\* Pointers to Marshalers: what MarshalPS returns differs from the encoding
\* of the value pointed to, except for the marshaller of the tests (42).
Hooks ==
    {VMarshaler(VInt(42), <<42>>, "nil"), VMarshaler(VInt(7), <<42>>, "nil"),
     VMarshaler(VInt(7), <<mTinyListStart + 1, 1>>, "nil"),
     VMarshaler(VString(KeyA), <<mTrue>>, "nil"),
     VMarshaler(VInt(7), <<>>, "ErrHook")}

\* The value with the hook value h at the position at.
Holding(h, at) ==
    CASE at = "top" -> h
      [] at = "list" -> VList(<<h>>)
      [] at = "list2" -> VList(<<VInt(1), h>>)
      [] at = "map" -> VMap(MapSet(EmptyMap, KeyA, h))
      [] at = "struct" -> Structure(Sig, <<h>>)

\* uint64 values on both sides of math.MaxInt64, and in every band.
UintSamples ==
    {I64(n) : n \in {0, 1, 127, 128, 255, 256, 32767, 32768, 65535, 65536,
                     2147483647}}
      \cup {<<0, 0, 0, 0, 128, 0, 0, 0>>, <<0, 0, 0, 0, 255, 255, 255, 255>>,
            <<0, 0, 0, 1, 0, 0, 0, 0>>, MaxInt64, MinInt64,
            <<128, 0, 0, 0, 0, 0, 0, 1>>, <<255, 255, 255, 255, 255, 255, 255, 255>>}

\* The values encoded on a failing writer.
FailValues ==
    Atoms \cup Nested(0) \cup {VUint(u) : u \in UintSamples}

Lefts == {-1} \cup (0..MaxWrites)

\* Values whose payload, size or signature bytes are D7, DB or DF.
MarkerLike ==
    {VInt(-33), VInt(-10277), VInt64(<<215, 219, 223, 215, 219, 223, 215, 219>>),
     VFloat(<<223, 219, 215, 0, 0, 0, 0, 223>>), VBytes(<<215, 219, 223>>),
     VString(<<223>>), Sized("string", 215), Sized("bytes", 223), Structure(223, <<>>),
     Structure(219, <<VInt(-33), VBytes(<<223>>)>>),
     VMap(MapSet(EmptyMap, <<215>>, VInt(-33))),
     VList(<<VBytes(<<215, 219, 223>>), VInt(-33), VList(<<VString(<<223>>)>>)>>)}

\* Structures of 0..MaxSize fields, of other signatures, and of 65536 fields.
Structures ==
    {Sized("struct", n) : n \in 0..MaxSize}
      \cup {Structure(sg, xs) : sg \in {0, 255}, xs \in SeqsUpTo(ElemAtoms, MaxLen)}
      \cup {Structure(Sig, [i \in 1..(MaxUint16 + 1) |-> Null])}

InitEnc ==
    /\ phase = "init"
    /\ given \in {[kind |-> "encode", v |-> v, left |-> -1, at |-> "none"] :
                    v \in Values}
                 \cup {[kind |-> "encode", v |-> v, left |-> n, at |-> "none"] :
                         v \in FailValues, n \in Lefts}
                 \cup {[kind |-> "encode", v |-> Holding(h, at), left |-> n,
                        at |-> at, hook |-> h] :
                         h \in Hooks, n \in Lefts,
                         at \in {"top", "list", "list2", "map", "struct"}}
                 \cup {[kind |-> "encode", v |-> v, left |-> -1, at |-> "none"] :
                         v \in Structures \cup MarkerLike}
                 \cup {[kind |-> "size", of |-> "struct", hi |-> hl[1], lo |-> hl[2]] :
                         hl \in LengthSamples}
    /\ Idle

\* NewEncoder(w).Encode(given.v)
DoEncodeTo ==
    /\ phase = "init"
    /\ given.kind = "encode"
    /\ \E ord \in Orders(given.v) :
         \E r \in {Encode(NewEncoder(given.left, ord), given.v)} :
             /\ wr' = r.e.buf
             /\ encErr' = r.err
             /\ wrErr' = r.e.failed
    /\ phase' = "encoded"
    /\ UNCHANGED <<given, d, sink, err, out, written>>

NextEnc == DoEncodeTo \/ DoSizeHeader

SpecEnc == InitEnc /\ [][NextEnc]_vars

-----------------------------------------------------------------------------
(* Typed sinks: Unmarshal of a buffer into a variable that is not the      *)
(* generic interface{}: an Unmarshaler, or a slice whose elements hold      *)
(* pointers to Unmarshalers.                                                *)

MaxNeed == 2

\* Markers an Unmarshaler is called with: a tiny int, a tiny list, a sized
\* string, a reserved marker, the end-of-stream marker, null.
HookMarkers == {1, mTinyListStart + 1, mStringSize8, 199, mEndOfStream, mNull}

\* What follows the marker: bytes that are markers themselves.
HookBodies == {SubSeq(<<mTinyListStart + 1, mNull, 5>>, 1, n) : n \in 0..(MaxNeed + 1)}

HookInputs ==
    {[kind |-> "hook", at |-> "top", mk |-> mk, need |-> k, body |-> b,
      wire |-> <<mk>> \o b, sink0 |-> UmSink(k, <<>>)] :
       mk \in HookMarkers, k \in 0..MaxNeed, b \in HookBodies}
      \cup
    {[kind |-> "hook", at |-> "first", mk |-> mk, need |-> k, body |-> b,
      wire |-> <<mTinyListStart + 2, mk>> \o b \o <<42>>,
      sink0 |-> SliceSink(<<VUnmarshaler(k, <<>>), Null>>, 2, TRUE)] :
       mk \in HookMarkers, k \in 0..MaxNeed, b \in HookBodies}
      \cup
    {[kind |-> "hook", at |-> "second", mk |-> mk, need |-> k, body |-> b,
      wire |-> <<mTinyListStart + 2, 42, mk>> \o b,
      sink0 |-> SliceSink(<<Null, VUnmarshaler(k, <<>>)>>, 2, TRUE)] :
       mk \in HookMarkers, k \in 0..MaxNeed, b \in HookBodies}

\* Integers on both sides of the limits of every width, each in its
\* shortest encoding and as a 64-bit payload, into every integer sink.
IntInputs ==
    LET vs == BandInts \cup {I64(255), I64(256), I64(65535), I64(65536), MaxUint32,
                             <<0, 0, 0, 1, 0, 0, 0, 0>>}
    IN  {[kind |-> "int", v |-> v, sink0 |-> IntSink(sg, bits, I64(7)),
          wire |-> IF wide THEN <<mInt64>> \o v ELSE Canon(VInt64(v)).w] :
           v \in vs, wide \in BOOLEAN, sg \in BOOLEAN, bits \in {8, 16, 32, 64}}

\* The list xs in the tiny, 8-bit sized or streamed form.
ListWire(form, xs) ==
    LET body == Wires([i \in 1..Len(xs) |-> Canon(xs[i])])
    IN  CASE form = "tiny" -> <<mTinyListStart + Len(xs)>> \o body
          [] form = "sized" -> <<mListSize8, Len(xs)>> \o body
          [] form = "streamed" -> <<mListSizeStream>> \o body \o <<mEndOfStream>>

\* Lists of 0..MaxLen + 1 elements into arrays of 0..MaxLen + 1 elements that
\* all hold 7.
ArrayInputs ==
    {[kind |-> "array", form |-> f, elems |-> xs, wire |-> ListWire(f, xs),
      sink0 |-> ArraySink([i \in 1..m |-> VInt(7)])] :
       f \in {"tiny", "sized", "streamed"},
       xs \in SeqsUpTo({VInt(1), VString(KeyA)}, MaxLen + 1), m \in 0..(MaxLen + 1)}

\* Sinks that hold something, of every kind, and pointers to them.
Sinks0 ==
    LET plain == {Iface(VInt(7)), Iface(VList(<<VInt(7)>>)), Iface(VUnmarshaler(0, <<>>)),
                  StringSink(KeyA), SliceSink(<<VInt(7)>>, 1, TRUE),
                  MapSink(MapSet(EmptyMap, KeyA, VInt(7)), FALSE),
                  StructSink(Sig, <<VInt(7)>>), IntSink(TRUE, 64, I64(7)),
                  IntSink(FALSE, 8, I64(7)), ArraySink(<<VInt(7), VInt(7)>>)}
        ums == {UmSink(k, <<>>) : k \in 0..MaxNeed}
        ptrs == {PtrSink(n, x) : n \in BOOLEAN, x \in plain \cup ums}
    IN  plain \cup ums \cup ptrs \cup {PtrSink(n, x) : n \in BOOLEAN, x \in ptrs}

\* Null, and the int 1, into every sink.
NullInputs ==
    {[kind |-> "null", wire |-> <<mNull>> \o r, rest |-> r, sink0 |-> s] :
       r \in {<<>>, <<1>>, <<1, 2, 3>>}, s \in Sinks0}
      \cup {[kind |-> "one", wire |-> <<1>>, sink0 |-> s] : s \in Sinks0}

\* A streamed list of n elements (the marker 1 and need bytes), then rest,
\* into a []interface{} of n or more pointers to Unmarshalers that each read
\* need bytes after the marker.
HookListInputs ==
    {[kind |-> "hookList", n |-> nl[1], rest |-> r, need |-> k,
      wire |-> <<mListSizeStream>>
                 \o Concat([i \in 1..nl[1] |-> <<1>> \o [j \in 1..k |-> 5]])
                 \o <<mEndOfStream>> \o r,
      sink0 |-> SliceSink([i \in 1..nl[2] |-> VUnmarshaler(k, <<>>)], nl[2], TRUE)] :
       nl \in {x \in (0..(MaxLen + 1)) \X (0..(MaxLen + 1)) : x[1] <= x[2]},
       k \in 0..MaxNeed, r \in {<<>>, <<1>>, <<1, mEndOfStream>>}}

\* Lists of 0..MaxLen + 1 elements, in the tiny, 8-bit sized and streamed
\* form, into a []interface{} of length and capacity 0, 1 or MaxLen + 2
\* whose backing array holds 7 everywhere.  The elements are null, an
\* int, a list, a sized map and a streamed map.
SliceInputs ==
    LET items == {Canon(Null), Canon(VInt(1)), Canon(VList(<<VInt(1)>>)),
                  Canon(VMap(MapSet(EmptyMap, KeyB, VInt(1)))),
                  Item(VMap(MapSet(EmptyMap, KeyA, VInt(1))),
                       StreamedMapWire(<<<<KeyA, Canon(VInt(1))>>>>))}
        Wire(form, xs) ==
            CASE form = "tiny" -> <<mTinyListStart + Len(xs)>> \o Wires(xs)
              [] form = "sized" -> <<mListSize8, Len(xs)>> \o Wires(xs)
              [] form = "streamed" ->
                   <<mListSizeStream>> \o Wires(xs) \o <<mEndOfStream>>
    IN  {[kind |-> "slice", form |-> f, elems |-> xs, wire |-> Wire(f, xs),
          sink0 |-> SliceSink([i \in 1..lc[2] |-> VInt(7)], lc[1], TRUE)] :
           f \in {"tiny", "sized", "streamed"}, xs \in SeqsUpTo(items, MaxLen + 1),
           lc \in {x \in {0, 1, MaxLen + 2} \X {0, 1, MaxLen + 2} : x[1] <= x[2]}}

\* Times encoded by Marshal, into a time.Time that holds another time:
\* the zero time, and the instants on both sides of every integer band,
\* the instant 0 among them.
TimeInputs ==
    {[kind |-> "time", tm |-> tm, wire |-> Canon(tm).w, sink0 |-> s] :
       tm \in {VTime(TRUE, I64(0))} \cup {VTime(FALSE, a) : a \in BandInts},
       s \in {TimeSink(TRUE, I64(0)), TimeSink(FALSE, I64(7))}}

\* Every prefix, the whole included, of buffers that hold every kind of
\* value: payloads of 1, 2, 4 and 8 bytes, sized and streamed containers.
PrefixInputs ==
    LET full == {<<mListSizeStream, mMapSizeStream>> \o TinyString(KeyA)
                   \o <<mInt16, 1, 2, mEndOfStream, mFloat64>> \o Float11
                   \o <<mEndOfStream>>,
                 <<mTinyStructStart + 2, Sig, mInt32, 1, 2, 3, 4, mBytesSize8, 2, 7, 7>>,
                 <<mTinyMapStart + 1, mStringSize8, 1, 97, mListSize8, 2, mTrue, mInt8, 200>>,
                 <<mTinyListStart + 2, mInt64, 1, 2, 3, 4, 5, 6, 7, 8, mNull>>}
    IN  UNION {{[kind |-> "prefix", wire |-> SubSeq(w, 1, n), whole |-> n = Len(w),
                 sink0 |-> s] :
                  n \in 0..Len(w), s \in {Iface(Null), SliceSink(<<>>, 0, TRUE)}} :
               w \in full}

InitSink ==
    /\ phase = "init"
    /\ given \in HookInputs \cup IntInputs \cup ArrayInputs \cup NullInputs
                   \cup HookListInputs \cup SliceInputs \cup TimeInputs
                   \cup PrefixInputs
    /\ Idle

SpecSink == InitSink /\ [][NextWire]_vars

-----------------------------------------------------------------------------
(* The claims                                                               *)

\* C1: round trip.  Decoding Marshal(v) into a generic sink returns, with no
\* error, a value equal to v; maps are compared as sets of key/value pairs,
\* so an entry whose value is null is still there after decoding.
C1_RoundTrip ==
    phase = "decoded" => err = "nil" /\ sink = Iface(given.v)

\* C2: decoding the streamed list D7 e1 ... en DF returns, with no error,
\* the list [e1, ..., en] in wire order and consumes the closing DF, into a
\* generic sink as into a typed slice.
C2_StreamedList ==
    (phase = "wireDecoded" /\ given.kind = "streamedList") =>
        /\ err = "nil"
        /\ (IF sink.k = "iface" THEN sink.v ELSE SliceValue(sink))
             = VList(Values_(given.elems))
        /\ d.cursor = Len(given.wire)

\* C3: a reserved marker (C4..C7, CF, D3, DE, E0..EF) fails with
\* UnknownMarker after exactly one byte is consumed; it is never a success
\* that leaves the sink as it was.
C3_ReservedMarker ==
    (phase = "wireDecoded" /\ given.kind = "reserved") =>
        /\ err = "UnknownMarker"
        /\ d.cursor = 1
        /\ ~(err = "nil" /\ sink = given.sink0)

\* C4: DF as the top-level value of a decode call fails with
\* UnexpectedEndOfStream; the call never succeeds.
C4_TopLevelEndOfStream ==
    (phase = "wireDecoded" /\ given.kind = "endOfStream") =>
        err = "UnexpectedEndOfStream" /\ err # "nil"

\* C5: decoding a strict prefix of a buffer Marshal returned (the empty
\* prefix included) returns io.EOF, never success.
C5_PrefixTruncated ==
    phase = "prefixDecoded" =>
        /\ Len(d.bytes) < Len(wr)
        /\ d.bytes = SubSeq(wr, 1, Len(d.bytes))
        /\ err = "EOF"

\* The prefix ends between the header of a structure nested in a list and
\* the structure's signature.
C5_Witness ==
    /\ phase = "prefixDecoded"
    /\ given.v = VList(<<Structure(Sig, <<VString(KeyA)>>)>>)
    /\ d.bytes = <<mTinyListStart + 1, mTinyStructStart + 1>>
    /\ err = "EOF"

\* C6: an int64 n is written in the first band that holds it: tiny
\* (-16..127, the one byte n mod 256), int8 (-128..-17, C8 and 1 byte),
\* int16 (C9 and 2 bytes), int32 (CA and 4 bytes), int64 (CB and 8 bytes),
\* the payload big-endian two's complement; the length is 1, 2, 3, 5 or 9,
\* and the values on both sides of each boundary fall in the bands listed.
C6_IntBands ==
    phase = "marshalled" =>
        LET a == given.v.i
            L == Len(wr)
            fits32 == \/ SubSeq(a, 1, 4) = <<0, 0, 0, 0>> /\ a[5] < 128
                      \/ SubSeq(a, 1, 4) = <<255, 255, 255, 255>> /\ a[5] >= 128
            n == ToInt(a)
            band == IF ~fits32 THEN 9
                    ELSE IF -16 <= n /\ n <= 127 THEN 1
                    ELSE IF -128 <= n /\ n <= -17 THEN 2
                    ELSE IF -32768 <= n /\ n <= 32767 THEN 3
                    ELSE 5
            boundaries ==
                {<<I64(-16), <<240>>>>, <<I64(-17), <<200, 239>>>>,
                 <<I64(127), <<127>>>>, <<I64(128), <<201, 0, 128>>>>,
                 <<I64(-128), <<200, 128>>>>, <<I64(-129), <<201, 255, 127>>>>,
                 <<I64(32767), <<201, 127, 255>>>>,
                 <<I64(32768), <<202, 0, 0, 128, 0>>>>,
                 <<I64(-32768), <<201, 128, 0>>>>,
                 <<I64(-32769), <<202, 255, 255, 127, 255>>>>,
                 <<I64(2147483647), <<202, 127, 255, 255, 255>>>>,
                 <<<<0, 0, 0, 0, 128, 0, 0, 0>>, <<203, 0, 0, 0, 0, 128, 0, 0, 0>>>>,
                 <<I64(-2147483647 - 1), <<202, 128, 0, 0, 0>>>>,
                 <<<<255, 255, 255, 255, 127, 255, 255, 255>>,
                   <<203, 255, 255, 255, 255, 127, 255, 255, 255>>>>}
        IN  /\ encErr = "nil"
            /\ L \in {1, 2, 3, 5, 9}
            /\ L = band
            /\ L = 1 => wr = <<a[8]>>
            /\ L > 1 =>
                 /\ wr[1] = (CASE L = 2 -> 200 [] L = 3 -> 201 [] L = 5 -> 202
                               [] L = 9 -> 203)
                 /\ SubSeq(wr, 2, L) = SubSeq(a, 10 - L, 8)
            /\ \A row \in boundaries : a = row[1] => wr = row[2]

\* 2^31 is the first value of the int64 band.
C6_Witness ==
    /\ phase = "marshalled"
    /\ given.v.i = <<0, 0, 0, 0, 128, 0, 0, 0>>
    /\ wr = <<203, 0, 0, 0, 0, 128, 0, 0, 0>>

\* C7, as stated: a string, list, map, byte slice or structure of n elements
\* gets the tiny marker BASE + n when n < 16 (no tiny form for bytes), else
\* the 8-bit marker and 1 size byte when n <= 255, else the 16-bit marker and
\* 2 size bytes when n <= 65535, else a 32-bit marker and 4 size bytes; the
\* size written is always n.
C7_SizeClasses ==
    LET base == [string |-> 128, list |-> 144, map |-> 160, struct |-> 176, bytes |-> 0]
        m8 == [string |-> 208, list |-> 212, map |-> 216, struct |-> 220, bytes |-> 204]
        m16 == [string |-> 209, list |-> 213, map |-> 217, struct |-> 221, bytes |-> 205]
        Holds(of, hi, lo, hdr) ==
            /\ encErr = "nil"
            /\ IF hi = 0 /\ lo < 16 /\ of # "bytes" THEN hdr = <<base[of] + lo>>
               ELSE IF hi = 0 /\ lo <= 255 THEN hdr = <<m8[of], lo>>
               ELSE IF hi = 0 THEN hdr = <<m16[of], lo \div 256, lo % 256>>
               ELSE /\ Len(hdr) = 5
                    /\ of # "struct" => hdr[1] = m16[of] + 1
                    /\ hdr[2] * 256 + hdr[3] = hi
                    /\ hdr[4] * 256 + hdr[5] = lo
    IN  phase = "sized" => Holds(given.of, given.hi, given.lo, wr)

\* C7, amended: the same up to n = 65535; beyond, a string, list, map or
\* byte slice of n <= 2^32 - 1 elements gets the 32-bit marker and 4 size
\* bytes, while a structure of more than 65535 fields, and anything of more
\* than 2^32 - 1 elements, is refused with ErrMarshalValueTooLarge and
\* nothing is written.  Whenever a header is written its size is n.
C7_SizeClassesAmended ==
    LET base == [string |-> 128, list |-> 144, map |-> 160, struct |-> 176, bytes |-> 0]
        m8 == [string |-> 208, list |-> 212, map |-> 216, struct |-> 220, bytes |-> 204]
        m16 == [string |-> 209, list |-> 213, map |-> 217, struct |-> 221, bytes |-> 205]
        m32 == [string |-> 210, list |-> 214, map |-> 218, struct |-> 0, bytes |-> 206]
        Header(of, hi, lo) ==
            IF hi = 0 /\ lo < 16 /\ of # "bytes" THEN <<base[of] + lo>>
            ELSE IF hi = 0 /\ lo <= 255 THEN <<m8[of], lo>>
            ELSE IF hi = 0 THEN <<m16[of], lo \div 256, lo % 256>>
            ELSE <<m32[of], hi \div 256, hi % 256, lo \div 256, lo % 256>>
        Refused(of, hi) == hi > 65535 \/ (of = "struct" /\ hi > 0)
        v == given.v
        n == CASE v.t = "map" -> Cardinality(DOMAIN v.m)
               [] v.t = "struct" -> Len(v.fields)
               [] v.t = "string" -> Len(v.s)
               [] v.t = "bytes" -> Len(v.p)
               [] v.t = "list" -> Len(v.l)
        body == CASE v.t = "map" -> 3 * n
                  [] v.t = "struct" -> 1 + n
                  [] OTHER -> n
        hdr == Header(v.t, 0, n)
    IN  /\ phase = "sized" =>
              IF Refused(given.of, given.hi)
              THEN encErr = "ErrMarshalValueTooLarge" /\ wr = <<>>
              ELSE encErr = "nil" /\ wr = Header(given.of, given.hi, given.lo)
        /\ phase = "marshalled" =>
              /\ encErr = "nil"
              /\ SubSeq(wr, 1, Len(hdr)) = hdr
              /\ Len(wr) = Len(hdr) + body

\* A structure of 65536 fields is refused.
C7_Witness ==
    /\ phase = "sized"
    /\ given.of = "struct" /\ given.hi = 1 /\ given.lo = 0
    /\ encErr = "ErrMarshalValueTooLarge"
    /\ wr = <<>>

\* C8: after k values are written back to back on one stream, k Decode
\* calls return them in the order written, each call consuming the bytes of
\* exactly one value, so that nothing is left after the k-th.
C8_StreamInOrder ==
    LET RECURSIVE Sum(_)
        Sum(xs) == IF xs = <<>> THEN 0 ELSE Head(xs) + Sum(Tail(xs))
    IN  phase \in {"reading", "streamDone"} =>
            /\ err \in {"none", "nil"}
            /\ out = SubSeq(given.vals, 1, Len(out))
            /\ Len(wr) = Sum(SubSeq(written, Len(out) + 1, Len(written)))
            /\ phase = "streamDone" => wr = <<>>

\* C9: encoding is canonical.  Encoding what a buffer of the encoder decodes
\* to gives the same bytes again, maps of two or more entries included.
C9_Canonical ==
    phase = "remarshalled" => encErr = "nil" /\ out = wr

\* C10: decoding a wire map into an existing map M merges: the entries of M
\* whose key is not on the wire stay as they were, and every key on the wire
\* ends up mapped to the value of its last occurrence, null included.
C10_MapMerge ==
    (phase = "wireDecoded" /\ given.kind = "map") =>
        LET es == given.entries
            onWire == {es[i][1] : i \in 1..Len(es)}
            last(k) == CHOOSE i \in 1..Len(es) :
                          /\ es[i][1] = k
                          /\ \A j \in (i + 1)..Len(es) : es[j][1] # k
        IN  /\ err = "nil"
            /\ DOMAIN sink.m = DOMAIN given.m0 \cup onWire
            /\ \A k \in DOMAIN given.m0 \ onWire : sink.m[k] = given.m0[k]
            /\ \A k \in onWire : sink.m[k] = es[last(k)][2].v

\* C11: a key position of a map (tiny, sized or streamed) that holds
\* something other than a string makes the decode fail, and nothing is stored
\* for that key: the map holds what it held plus the entries before it.
C11_KeyMustBeString ==
    (phase = "wireDecoded" /\ given.kind = "badKey") =>
        LET m == IF sink.k = "iface" THEN sink.v.m ELSE sink.m
            es == given.before
        IN  /\ err # "nil"
            /\ DOMAIN m = DOMAIN given.m0 \cup {es[i][1] : i \in 1..Len(es)}

\* C12: a value that implements Marshaler and is not a nil pointer is encoded
\* by calling MarshalPS and writing exactly the bytes it returns, at the top
\* level (passed as a pointer) and as a list element, a map value or a
\* structure field; it is not encoded by its underlying kind.
C12_MarshalerHook ==
    (/\ phase = "encoded"
     /\ given.at # "none"
     /\ given.left = -1
     /\ given.hook.perr = "nil") =>
        /\ encErr = "nil"
        /\ wr = CASE given.at = "top" -> given.hook.ps
                  [] given.at = "list" -> <<mTinyListStart + 1>> \o given.hook.ps
                  [] given.at = "list2" -> <<mTinyListStart + 2, 1>> \o given.hook.ps
                  [] given.at = "map" ->
                       <<mTinyMapStart + 1, mTinyStringStart + 1>> \o KeyA
                         \o given.hook.ps
                  [] given.at = "struct" -> <<mTinyStructStart + 1, Sig>> \o given.hook.ps

C14_WriteErrorReturned ==
    (phase = "encoded" /\ wrErr # "nil") => encErr # "nil"

\* C15: a wire integer v decoded into a typed integer sink is stored, with
\* no error, exactly when v lies in the range of the sink's type; a negative
\* v into an unsigned sink, or a v outside the range of a sink of width 8,
\* 16, 32 or 64, fails with the type-mismatch error and the sink keeps what
\* it held: no wrapped value is stored.
C15_IntRange ==
    (phase = "wireDecoded" /\ given.kind = "int") =>
        LET s0 == given.sink0
            v == given.v
            lo == IF ~s0.signed THEN I64(0)
                  ELSE CASE s0.bits = 8 -> I64(-128)
                         [] s0.bits = 16 -> I64(-32768)
                         [] s0.bits = 32 -> <<255, 255, 255, 255, 128, 0, 0, 0>>
                         [] s0.bits = 64 -> <<128, 0, 0, 0, 0, 0, 0, 0>>
            hi == IF s0.signed
                  THEN CASE s0.bits = 8 -> I64(127)
                         [] s0.bits = 16 -> I64(32767)
                         [] s0.bits = 32 -> <<0, 0, 0, 0, 127, 255, 255, 255>>
                         [] s0.bits = 64 -> <<127, 255, 255, 255, 255, 255, 255, 255>>
                  ELSE CASE s0.bits = 8 -> I64(255)
                         [] s0.bits = 16 -> I64(65535)
                         [] s0.bits = 32 -> <<0, 0, 0, 0, 255, 255, 255, 255>>
                         [] s0.bits = 64 -> <<127, 255, 255, 255, 255, 255, 255, 255>>
        IN  IF LE64(lo, v) /\ LE64(v, hi)
            THEN err = "nil" /\ sink = [s0 EXCEPT !.x = v]
            ELSE err = "ErrUnMarshalTypeError" /\ sink = s0

\* 128 is refused by an int8, which keeps its 7, and is stored in a uint8.
C15_Witness ==
    /\ phase = "wireDecoded"
    /\ given.kind = "int" /\ given.v = I64(128) /\ given.sink0.bits = 8
    /\ \/ given.sink0.signed /\ err = "ErrUnMarshalTypeError" /\ sink.x = I64(7)
       \/ ~given.sink0.signed /\ err = "nil" /\ sink.x = I64(128)

\* C16: a wire list of n elements, in the tiny, sized or streamed form,
\* decoded into a fixed array of m elements gives no error: the first
\* min(n, m) elements are decoded into the array, the rest of the array is
\* zeroed when n < m, and the extra elements are consumed and dropped when
\* n > m.
C16_ListIntoArray ==
    (phase = "wireDecoded" /\ given.kind = "array") =>
        LET xs == given.elems
            m == given.sink0.len
        IN  /\ err = "nil"
            /\ sink.arr = [i \in 1..m |-> IF i <= Len(xs) THEN xs[i] ELSE Null]
            /\ d.cursor = Len(given.wire)

C18_UnsignedRange ==
    (phase = "encoded" /\ given.v.t = "uint") =>
        IF LexLT(<<127, 255, 255, 255, 255, 255, 255, 255>>, given.v.u)
        THEN encErr = "ErrMarshalValueTooLarge" /\ wr = <<>> /\ wrErr = "nil"
        ELSE LET r == Encode(NewEncoder(given.left, <<>>), VInt64(given.v.u))
             IN  encErr = r.err /\ wr = r.e.buf /\ wrErr = r.e.failed

\* 2^63 is refused with nothing written.
C18_Witness ==
    /\ phase = "encoded"
    /\ given.v.t = "uint"
    /\ given.v.u = <<128, 0, 0, 0, 0, 0, 0, 0>>
    /\ given.left = -1
    /\ encErr = "ErrMarshalValueTooLarge"
    /\ wr = <<>>

\* C19: a Structure of more than 65535 fields is refused with
\* ErrMarshalValueTooLarge before any byte is written; one of up to 65535
\* fields is written as its size header (B0+n for n < 16, DC and 1 size byte
\* up to 255, DD and 2 size bytes up to 65535), then the signature byte,
\* then the fields in order; the signature byte is there with no field too.
C19_StructureLayout ==
    LET Header(n) ==
            IF n < 16 THEN <<mTinyStructStart + n>>
            ELSE IF n <= 255 THEN <<mStructSize8, n>>
            ELSE <<mStructSize16, n \div 256, n % 256>>
        RECURSIVE InOrder(_, _, _)
        InOrder(bytes, fields, i) ==
            IF i > Len(fields) THEN bytes = <<>>
            ELSE \E ord \in Orders(fields[i]) :
                   LET p == Marshal(fields[i], ord).p
                   IN  /\ Len(p) <= Len(bytes)
                       /\ SubSeq(bytes, 1, Len(p)) = p
                       /\ InOrder(SubSeq(bytes, Len(p) + 1, Len(bytes)), fields, i + 1)
        n == Len(given.v.fields)
        hdr == Header(n)
    IN  /\ (phase = "sized" /\ given.of = "struct") =>
              IF given.hi > 0 THEN encErr = "ErrMarshalValueTooLarge" /\ wr = <<>>
              ELSE encErr = "nil" /\ wr = Header(given.lo)
        /\ (phase = "encoded" /\ given.at = "none" /\ given.left = -1
               /\ given.v.t = "struct") =>
              IF n > 65535 THEN encErr = "ErrMarshalValueTooLarge" /\ wr = <<>>
              ELSE /\ encErr = "nil"
                   /\ Len(wr) >= Len(hdr) + 1
                   /\ SubSeq(wr, 1, Len(hdr)) = hdr
                   /\ wr[Len(hdr) + 1] = given.v.sig
                   /\ InOrder(SubSeq(wr, Len(hdr) + 2, Len(wr)), given.v.fields, 1)

\* The structure of 65536 fields was refused with nothing written.
C19_Witness ==
    /\ phase = "encoded"
    /\ given.v.t = "struct"
    /\ Len(given.v.fields) = 65536
    /\ encErr = "ErrMarshalValueTooLarge"
    /\ wr = <<>>

\* C20: the encoder writes the sized forms only.  In the bytes Encode wrote
\* for a universal value (no hook value in it) every value position holds a
\* marker that is not D7, DB or DF (nor a reserved one): read as markers,
\* sizes and payloads, the output is exactly one value.
C20_NoStreamedMarker ==
    LET size(pos, w) == IF pos + w <= Len(wr) THEN UInt(SubSeq(wr, pos + 1, pos + w))
                        ELSE Len(wr) + 1
        RECURSIVE After(_, _)
        \* The position after cnt values that start at pos; 0 when a value
        \* position holds no marker of a sized form or the bytes run out.
        After(pos, cnt) ==
            IF cnt = 0 THEN pos
            ELSE IF pos = 0 \/ pos > Len(wr) THEN 0
            ELSE LET mk == wr[pos]
                     hi == (mk \div 16) * 16
                     next ==
                       CASE mk < 128 \/ mk >= 240 -> pos + 1
                         [] hi = 128 -> pos + 1 + (mk % 16)
                         [] hi = 144 -> After(pos + 1, mk % 16)
                         [] hi = 160 -> After(pos + 1, 2 * (mk % 16))
                         [] hi = 176 -> After(pos + 2, mk % 16)
                         [] mk \in {192, 194, 195} -> pos + 1
                         [] mk = 193 -> pos + 9
                         [] mk = 200 -> pos + 2
                         [] mk = 201 -> pos + 3
                         [] mk = 202 -> pos + 5
                         [] mk = 203 -> pos + 9
                         [] mk \in {204, 208} -> pos + 2 + size(pos, 1)
                         [] mk \in {205, 209} -> pos + 3 + size(pos, 2)
                         [] mk \in {206, 210} -> pos + 5 + size(pos, 4)
                         [] mk = 212 -> After(pos + 2, size(pos, 1))
                         [] mk = 213 -> After(pos + 3, size(pos, 2))
                         [] mk = 214 -> After(pos + 5, size(pos, 4))
                         [] mk = 216 -> After(pos + 2, 2 * size(pos, 1))
                         [] mk = 217 -> After(pos + 3, 2 * size(pos, 2))
                         [] mk = 218 -> After(pos + 5, 2 * size(pos, 4))
                         [] mk = 220 -> After(pos + 3, size(pos, 1))
                         [] mk = 221 -> After(pos + 4, size(pos, 2))
                         [] OTHER -> 0
                 IN  IF next = 0 \/ next > Len(wr) + 1 THEN 0
                     ELSE After(next, cnt - 1)
    IN  (phase = "encoded" /\ given.at = "none" /\ given.left = -1
           /\ encErr = "nil") =>
            After(1, 1) = Len(wr) + 1

\* -33 was written as C8 DF: the byte DF is there, as a payload.
C20_Witness ==
    /\ phase = "encoded"
    /\ given.v = VList(<<VBytes(<<215, 219, 223>>), VInt(-33), VList(<<VString(<<223>>)>>)>>)
    /\ encErr = "nil"
    /\ wr = <<mTinyListStart + 3, mBytesSize8, 3, 215, 219, 223, mInt8, 223,
              mTinyListStart + 1, mTinyStringStart + 1, 223>>


\* C21: the end-of-stream marker DF where a tiny or sized list expects an
\* element, a structure a field, or a sized map a key or a value, makes the
\* decode fail with UnexpectedEndOfStream; it is never accepted.
C21_EndOfStreamInside ==
    (phase = "wireDecoded" /\ given.kind = "endInside") =>
        err = "UnexpectedEndOfStream" /\ err # "nil"

\* C22: in a streamed map, the end-of-stream marker DF between a key and
\* its value makes the decode fail with UnexpectedEndOfStream: the half-read
\* key is neither stored nor deleted, and no byte after that DF is read.
C22_EndOfStreamAsValue ==
    (phase = "wireDecoded" /\ given.kind = "endValue") =>
        LET m == IF sink.k = "iface" THEN sink.v.m ELSE sink.m
            before == IF given.sink0.k = "iface" THEN EmptyMap ELSE given.m0
        IN  /\ err = "UnexpectedEndOfStream"
            /\ (KeyA \in DOMAIN m) = (KeyA \in DOMAIN before)
            /\ KeyA \in DOMAIN m => m[KeyA] = before[KeyA]
            /\ d.cursor = Len(given.wire) - Len(given.rest)

\* The Go value a sink holds after a decode.
Held(rv) ==
    CASE rv.k = "iface" -> rv.v
      [] rv.k = "slice" -> SliceValue(rv)
      [] rv.k = "map" -> VMap(rv.m)
      [] rv.k = "struct" -> Structure(rv.sig, rv.fields)

\* C23: the DF that ends a streamed map ends only that map.  When the map
\* is an element of a sized or streamed list, or an entry value of a map,
\* the enclosing container decodes all that follows it, and a sized map
\* decoded later in the call gets all its entries: the call returns the
\* value on the wire, with no error, the whole buffer consumed.
C23_MapEndIsLocal ==
    (phase = "wireDecoded" /\ given.kind = "afterMap") =>
        /\ err = "nil"
        /\ Held(sink) = given.want
        /\ d.cursor = Len(given.wire)

\* C24: in a streamed list the DF at an element boundary ends the list
\* whatever the elements are: it is never passed to the UnmarshalPS of an
\* element as the marker of a value, so a streamed list decoded into
\* elements that are Unmarshalers ends at its DF, with no error and nothing
\* after the DF consumed.
C24_EndOfStreamNotHooked ==
    (phase = "wireDecoded" /\ given.kind = "hookList") =>
        /\ err = "nil"
        /\ sink.len = given.n
        /\ d.cursor = Len(given.wire) - Len(given.rest)
        /\ \A i \in 1..Len(sink.arr) :
             sink.arr[i].t = "umptr" =>
               \A c \in 1..Len(sink.arr[i].calls) :
                 sink.arr[i].calls[c].mk # mEndOfStream

\* C25: d.eos is false when a list, map or struct decode returns and when
\* a decode call returns with no error; it is true only from the reading of
\* a DF to the end of the streamed container around that DF.
C25_EosCleared ==
    (phase = "wireDecoded" /\ err = "nil") => ~d.eos

\* C26: decoding a list of n elements into a slice leaves the slice with
\* length n, whatever its length and capacity were (a shorter slice is
\* grown, a longer one cut), and position i holds the i-th element of the
\* wire for every i < n.
C26_SliceLength ==
    (phase = "wireDecoded" /\ given.kind = "slice") =>
        /\ err = "nil"
        /\ sink.len = Len(given.elems)
        /\ \A i \in 1..Len(given.elems) : sink.arr[i] = given.elems[i].v

\* C27: a time encoded by Marshal and decoded into a time.Time comes back
\* equal: the zero time as the zero time, every instant representable in
\* nanoseconds since 1970 as that instant, the instant 0 included.
C27_TimeRoundTrip ==
    (phase = "wireDecoded" /\ given.kind = "time") =>
        /\ err = "nil"
        /\ sink.k = "time"
        /\ sink.zero = given.tm.zero
        /\ ~given.tm.zero => sink.ns = given.tm.ns

\* C28: the two entry points agree.  For the same bytes and the same
\* sink, Decoder.Decode on a stream returns the value and the error that
\* Unmarshal returns on the buffer and, when there is no error, has taken
\* as many bytes off the stream as Unmarshal moved its cursor.
C28_EntryPointsAgree ==
    [][(phase = "wireDecoded" /\ phase' = "streamDecoded") =>
         /\ sink' = sink
         /\ err' = err
         /\ err = "nil" => Len(given.wire) - Len(d'.stream) = d.cursor]_vars

\* Both entry points decoded a container of two or more bytes, with no
\* error and bytes left after it.
C28_Witness ==
    /\ phase = "streamDecoded"
    /\ err = "nil"
    /\ sink # given.sink0
    /\ d.stream # <<>>
    /\ Len(given.wire) - Len(d.stream) >= 2

\* C29: every Unmarshal call on a finite buffer ends with a value or an
\* error: every iteration of the list, map and struct loops takes a byte
\* off the input or ends the loop with an error, also when the DF of a
\* streamed container is missing.
C29_EndsWithValueOrError ==
    phase = "wireDecoded" =>
        /\ err \in {"nil", "EOF", "ErrUnexpectedEOF", "ErrUnMarshalTypeError"}
        /\ d.cursor <= Len(given.wire)

\* C30: in in-memory mode 0 <= cursor <= len(data) always and the cursor
\* never moves back; a read of s bytes moves it by s and returns the s
\* bytes at the old cursor, or, when fewer than s bytes are left, moves it
\* to len(data) and fails with io.EOF.
C30_Cursor ==
    [][/\ ~d'.hasStream => d'.cursor >= 0 /\ d'.cursor <= Len(d'.bytes)
       /\ phase' = "wireDecoded" => d'.cursor >= d.cursor
       /\ phase' = "read" =>
            LET s == written'[1]
            IN  /\ d'.cursor >= d.cursor
                /\ d'.bytes = d.bytes
                /\ IF Len(d.bytes) - d.cursor >= s
                   THEN /\ d'.cursor = d.cursor + s
                        /\ out' = SubSeq(d.bytes, d.cursor + 1, d.cursor + s)
                        /\ err' = "nil"
                   ELSE /\ d'.cursor = Len(d.bytes)
                        /\ err' = "EOF"]_vars

\* A read of two bytes from the middle of the buffer a decode has left.
C30_Witness ==
    /\ phase = "read"
    /\ written = <<2>>
    /\ err = "nil" /\ Len(out) = 2 /\ d.cursor > 2 /\ d.cursor < Len(d.bytes)

=============================================================================
